---------------------------- MODULE Spec2Model ----------------------------
(***************************************************************************)
(* Model of kozu-pick: the parcel address matching and neighbourhood       *)
(* extraction of KozuWebExtractor.extract_data (src/src/kozu_extractor.py),*)
(* the column resolution, area-data extraction and area-name normalisation *)
(* of FileProcessor (src/src/file_processors.py) and the extraction of     *)
(* area names from an address string (src/src/utils.py,                    *)
(* src/prefecture_city_selector.py).                                       *)
(*                                                                         *)
(* Text.  A Python str is a sequence of characters.  A digit is the        *)
(* one-character string "0".."9"; a kanji or kana is written as its        *)
(* reading ("na" for 那), one element per character, because the module    *)
(* is ASCII.  A missing value (None / NaN) is NULL.                        *)
(*                                                                         *)
(* Geometry.  A polygon is a finite set of unit cells <<i, j>>, the cell   *)
(* <<i, j>> being the square (i, j)-(i+1, j+1); coordinates and range_m    *)
(* are exact rationals [n, d].                                             *)
(***************************************************************************)
EXTENDS Integers, Sequences, FiniteSets

VARIABLES
    gdf,            \* the loaded parcel dataset
    call,           \* the arguments of the latest extract_data call
    ret,            \* its return value
    win,            \* the search window it built
    prev,           \* the call before it and that call's return value
    geopandas,      \* what the installed geopandas does on set_crs(None)
    session_state,  \* st.session_state
    table,          \* the table read from an uploaded file
    processed,      \* the latest FileProcessor operation and its result
    area_name,      \* an area name
    normalized,     \* the result of _normalize_area_name on it
    address,        \* an address string
    extracted,      \* the areas extracted from it
    invocation,     \* the concurrent extraction invocations, one record each
    wizard,         \* the keys of st.session_state that the wizard pages use
    sorting         \* a prefecture mapping and the result of sorting it

vars == <<gdf, call, ret, win, prev, geopandas, session_state, table,
          processed, area_name, normalized, address, extracted, invocation,
          wizard, sorting>>

-----------------------------------------------------------------------------
(* Text values *)

NULL == <<"NULL">>

Digits == {"0", "1", "2", "3", "4", "5", "6", "7", "8", "9"}

DigitVal(c) ==
    CASE c = "0" -> 0 [] c = "1" -> 1 [] c = "2" -> 2 [] c = "3" -> 3
      [] c = "4" -> 4 [] c = "5" -> 5 [] c = "6" -> 6 [] c = "7" -> 7
      [] c = "8" -> 8 [] c = "9" -> 9

\* 丁目
Chome == <<"chou", "me">>
\* 選択なし
SENTAKU_NASHI == <<"sen", "taku", "na", "shi">>
\* 丁目データなし
CHOME_DATA_NASHI == <<"chou", "me", "de", "-", "ta", "na", "shi">>

\* column names: 大字名, 丁目名, 小字名, 地番, geometry
COL_OAZA == "oaza"
COL_CHOME == "chome"
COL_KOAZA == "koaza"
COL_CHIBAN == "chiban"
COL_GEOMETRY == "geometry"

\* str.isdigit()
isdigit(s) == Len(s) > 0 /\ \A k \in 1..Len(s) : s[k] \in Digits

\* int(s) of a digit string
RECURSIVE int(_)
int(s) == IF Len(s) = 0 THEN 0
          ELSE 10 * int(SubSeq(s, 1, Len(s) - 1)) + DigitVal(s[Len(s)])

\* str.zfill(width)
RECURSIVE zfill(_, _)
zfill(s, width) == IF Len(s) >= width THEN s ELSE zfill(<<"0">> \o s, width)

\* str.strip()
RECURSIVE strip(_)
strip(s) ==
    IF Len(s) = 0 THEN s
    ELSE IF s[1] = " " THEN strip(Tail(s))
    ELSE IF s[Len(s)] = " " THEN strip(SubSeq(s, 1, Len(s) - 1))
    ELSE s

\* str.lower(), on the capital letters that occur in the model
lower(s) == [k \in 1..Len(s) |->
               CASE s[k] = "N" -> "n" [] s[k] = "A" -> "a"
                 [] s[k] = "M" -> "m" [] s[k] = "E" -> "e"
                 [] OTHER -> s[k]]

\* the dict okinawa_patterns of _convert_area_code
okinawa_patterns ==
    { << <<"0", "1">>, <<"na", "ha">> >>,
      << <<"0", "2">>, <<"shu", "ri">> >>,
      << <<"0", "3">>, <<"ma", "ka", "bi">> >>,
      << <<"0", "4">>, <<"tomari">> >>,
      << <<"0", "5">>, <<"ku", "mo", "ji">> >>,
      << <<"0", "6">>, <<"maki", "shi">> >>,
      << <<"0", "7">>, <<"a", "sato">> >>,
      << <<"0", "8">>, <<"ue", "hara">> >>,
      << <<"0", "9">>, <<"fu", "jima">> >>,
      << <<"1", "0">>, <<"me", "karu">> >>,
      << <<"1", "1">>, <<"miya", "zato">> >>,
      << <<"1", "2">>, <<"fu", "ten", "ma">> >>,
      << <<"1", "3">>, <<"uchi", "ma">> >>,
      << <<"1", "4">>, <<"kyou", "zuka">> >>,
      << <<"1", "5">>, <<"minato", "gawa">> >>,
      << <<"1", "6">>, <<"maki", "minato">> >>,
      << <<"2", "1">>, <<"oo", "yama">> >>,
      << <<"2", "2">>, <<"gi", "no", "wan">> >>,
      << <<"2", "3">>, <<"ara", "gusuku">> >>,
      << <<"2", "4">>, <<"ga", "ne", "ko">> >>,
      << <<"2", "5">>, <<"ka", "kazu">> >>,
      << <<"2", "6">>, <<"ma", "e", "hara">> >> }

InPatterns(code) == \E p \in okinawa_patterns : p[1] = code
Lookup(code) == (CHOOSE p \in okinawa_patterns : p[1] = code)[2]

\* the conversion that drops a leading zero of a code it does not know
convert_area_code_dropping_zero(code) ==
    LET padded_code == zfill(code, 2)
    IN  IF InPatterns(padded_code) THEN Lookup(padded_code)
        ELSE IF InPatterns(code) THEN Lookup(code)
        ELSE IF Len(code) > 1 /\ code[1] = "0" THEN Tail(code)
        ELSE code

\* FileProcessor._convert_area_code
convert_area_code(code) ==
    LET padded_code == zfill(code, 2)
    IN  IF InPatterns(padded_code) THEN Lookup(padded_code)
        ELSE IF InPatterns(code) THEN Lookup(code)
        ELSE code

\* _normalize_area_name that treats 20 as a code
normalize_area_name_below_20(name) ==
    IF name = NULL \/ name = <<>> THEN <<>>
    ELSE LET name_str == strip(name)
         IN  IF name_str = <<>> \/ lower(name_str) = <<"n", "a", "n">> THEN <<>>
             ELSE IF isdigit(name_str)
                  THEN IF int(name_str) < 20 THEN name_str \o Chome
                       ELSE convert_area_code(name_str)
             ELSE LET converted == convert_area_code(name_str)
                  IN  IF converted # name_str THEN converted ELSE name_str

\* FileProcessor._normalize_area_name
normalize_area_name(name) ==
    IF name = NULL \/ name = <<>> THEN <<>>
    ELSE LET name_str == strip(name)
         IN  IF name_str = <<>> \/ lower(name_str) = <<"n", "a", "n">> THEN <<>>
             ELSE IF isdigit(name_str)
                  THEN IF int(name_str) <= 20 THEN name_str \o Chome
                       ELSE convert_area_code(name_str)
             ELSE LET converted == convert_area_code(name_str)
                  IN  IF converted # name_str THEN converted ELSE name_str

-----------------------------------------------------------------------------
(* Exact rational arithmetic for coordinates and range_m *)

Rat(n, d) == [n |-> n, d |-> d]
R(k) == Rat(k, 1)
RatAdd(a, b) == Rat(a.n * b.d + b.n * a.d, a.d * b.d)
RatSub(a, b) == Rat(a.n * b.d - b.n * a.d, a.d * b.d)
RatLt(a, b) == a.n * b.d < b.n * a.d
RatLe(a, b) == a.n * b.d <= b.n * a.d
RatEq(a, b) == a.n * b.d = b.n * a.d

\* shapely Point(x, y)
Point(x, y) == [x |-> x, y |-> y]
PointEq(p, q) == RatEq(p.x, q.x) /\ RatEq(p.y, q.y)

-----------------------------------------------------------------------------
(* Geometry: a polygon is a set of unit cells, a missing geometry is None *)

Polygon(cells) == [isna |-> FALSE, cells |-> cells]
NoGeometry == [isna |-> TRUE, cells |-> {}]

RECURSIVE SumX(_)
SumX(cells) == IF cells = {} THEN 0
               ELSE LET c == CHOOSE c \in cells : TRUE
                    IN  (2 * c[1] + 1) + SumX(cells \ {c})

RECURSIVE SumY(_)
SumY(cells) == IF cells = {} THEN 0
               ELSE LET c == CHOOSE c \in cells : TRUE
                    IN  (2 * c[2] + 1) + SumY(cells \ {c})

\* GeoSeries.centroid: the area-weighted mean of the cell centres
centroid(geom) ==
    Point(Rat(SumX(geom.cells), 2 * Cardinality(geom.cells)),
          Rat(SumY(geom.cells), 2 * Cardinality(geom.cells)))

-----------------------------------------------------------------------------
(* KozuWebExtractor.extract_data *)

\* an absent return value (Python None) and a present one
None(empty) == [none |-> TRUE, val |-> empty]
Some(v) == [none |-> FALSE, val |-> v]

\* Series.notna()
notna(v) == v # NULL

\* Series == scalar: a missing value on either side compares False
eq(v, q) == v # NULL /\ q # NULL /\ v = q

\* Python truthiness of an optional str
truthy(v) == v # NULL /\ v # <<>>

\* the increasing sequence of the row numbers 1..n that satisfy mask
RECURSIVE Select(_, _)
Select(mask, n) ==
    IF n = 0 THEN <<>>
    ELSE IF mask[n] THEN Append(Select(mask, n - 1), n) ELSE Select(mask, n - 1)

Range(seq) == {seq[k] : k \in 1..Len(seq)}

\* lines 153-154
missing_columns(g) ==
    SelectSeq(<<COL_OAZA, COL_CHIBAN>>, LAMBDA col : col \notin g.columns)

\* chome_filter_added without the test for the sentinel
chome_filter_added_no_sentinel(g, chome) ==
    chome # NULL /\ COL_CHOME \in g.columns

\* lines 179 and 183: is the optional filter added to search_condition
chome_filter_added(g, chome) ==
    chome # NULL /\ chome # SENTAKU_NASHI /\ COL_CHOME \in g.columns

koaza_filter_added(g, koaza) ==
    koaza # NULL /\ koaza # SENTAKU_NASHI /\ COL_KOAZA \in g.columns

\* search_condition without the comparison of 地番
search_condition_no_chiban(g, oaza, chome, koaza, chiban) ==
    [i \in 1..Len(g.rows) |->
        /\ eq(g.rows[i].oaza, oaza)
        /\ notna(g.rows[i].oaza)
        /\ notna(g.rows[i].chiban)
        /\ (chome_filter_added(g, chome) =>
                eq(g.rows[i].chome, chome) /\ notna(g.rows[i].chome))
        /\ (koaza_filter_added(g, koaza) =>
                eq(g.rows[i].koaza, koaza) /\ notna(g.rows[i].koaza))]

\* lines 171-184
search_condition(g, oaza, chome, koaza, chiban) ==
    [i \in 1..Len(g.rows) |->
        /\ eq(g.rows[i].oaza, oaza)
        /\ eq(g.rows[i].chiban, chiban)
        /\ notna(g.rows[i].oaza)
        /\ notna(g.rows[i].chiban)
        /\ (chome_filter_added(g, chome) =>
                eq(g.rows[i].chome, chome) /\ notna(g.rows[i].chome))
        /\ (koaza_filter_added(g, koaza) =>
                eq(g.rows[i].koaza, koaza) /\ notna(g.rows[i].koaza))]

\* gdf[gdf[col] == value][col].count(): the non-null cells of the selection
matches(g, col, value) ==
    Cardinality({i \in 1..Len(g.rows) :
                    eq(g.rows[i][col], value) /\ notna(g.rows[i][col])})

\* oaza_matches counted in the filtered frame df, which is empty here
oaza_matches_of_df(g, oaza) == matches([g EXCEPT !.rows = <<>>], COL_OAZA, oaza)

\* lines 191-192
oaza_matches(g, oaza) == matches(g, COL_OAZA, oaza)

chiban_matches(g, chiban) == matches(g, COL_CHIBAN, chiban)

\* lines 197 and 201: is the optional field reported in debug_info
chome_reported(g, chome) ==
    truthy(chome) /\ chome # SENTAKU_NASHI /\ COL_CHOME \in g.columns

koaza_reported(g, koaza) ==
    truthy(koaza) /\ koaza # SENTAKU_NASHI /\ COL_KOAZA \in g.columns

\* the diagnostics without the 地番 count
debug_info_oaza_only(g, oaza, chome, koaza, chiban) ==
    << [col |-> COL_OAZA, count |-> oaza_matches(g, oaza)] >>

\* lines 190-203
debug_info(g, oaza, chome, koaza, chiban) ==
    <<[col |-> COL_OAZA, count |-> oaza_matches(g, oaza)],
      [col |-> COL_CHIBAN, count |-> chiban_matches(g, chiban)]>>
    \o (IF chome_reported(g, chome)
        THEN <<[col |-> COL_CHOME, count |-> matches(g, COL_CHOME, chome)]>>
        ELSE <<>>)
    \o (IF koaza_reported(g, koaza)
        THEN <<[col |-> COL_KOAZA, count |-> matches(g, COL_KOAZA, koaza)]>>
        ELSE <<>>)

\* four_points with Point(lon, lat) in place of Point(lat, lon) at line 252
four_points_lonlat(cen, range_m) ==
    LET i1 == RatAdd(cen.x, range_m)
        i2 == RatSub(cen.x, range_m)
        i3 == RatAdd(cen.y, range_m)
        i4 == RatSub(cen.y, range_m)
        x1 == i3
        y1 == i1
        x2 == i4
        y2 == i2
        top_right == [lon |-> x1, lat |-> y1]
        lower_left == [lon |-> x2, lat |-> y2]
        lower_right == [lon |-> x1, lat |-> y2]
        top_left == [lon |-> x2, lat |-> y1]
        points == <<top_right, lower_left, lower_right, top_left>>
    IN  [k \in 1..4 |-> Point(points[k].lon, points[k].lat)]

\* four_points with the operands of the subtractions at lines 234 and 236
\* exchanged (range_m - x, range_m - y)
four_points_operands(cen, range_m) ==
    LET i1 == RatAdd(cen.x, range_m)
        i2 == RatSub(range_m, cen.x)
        i3 == RatAdd(cen.y, range_m)
        i4 == RatSub(range_m, cen.y)
        x1 == i3
        y1 == i1
        x2 == i4
        y2 == i2
        top_right == [lon |-> x1, lat |-> y1]
        lower_left == [lon |-> x2, lat |-> y2]
        lower_right == [lon |-> x1, lat |-> y2]
        top_left == [lon |-> x2, lat |-> y1]
        points == <<top_right, lower_left, lower_right, top_left>>
    IN  [k \in 1..4 |-> Point(points[k].lat, points[k].lon)]

\* lines 232-252: the four corner points of the search range
four_points(cen, range_m) ==
    LET i1 == RatAdd(cen.x, range_m)
        i2 == RatSub(cen.x, range_m)
        i3 == RatAdd(cen.y, range_m)
        i4 == RatSub(cen.y, range_m)
        x1 == i3
        y1 == i1
        x2 == i4
        y2 == i2
        top_right == [lon |-> x1, lat |-> y1]
        lower_left == [lon |-> x2, lat |-> y2]
        lower_right == [lon |-> x1, lat |-> y2]
        top_left == [lon |-> x2, lat |-> y1]
        points == <<top_right, lower_left, lower_right, top_left>>
    IN  [k \in 1..4 |-> Point(points[k].lat, points[k].lon)]

RatMin(S) == CHOOSE a \in S : \A b \in S : RatLe(a, b)
RatMax(S) == CHOOSE a \in S : \A b \in S : RatLe(b, a)

\* line 256: dissolve().convex_hull of the corner points, an axis-aligned
\* box (range_m is not 0 in this model, so the box is a Polygon)
convex_hull(pts) ==
    [minx |-> RatMin({pts[k].x : k \in 1..Len(pts)}),
     maxx |-> RatMax({pts[k].x : k \in 1..Len(pts)}),
     miny |-> RatMin({pts[k].y : k \in 1..Len(pts)}),
     maxy |-> RatMax({pts[k].y : k \in 1..Len(pts)})]

\* the intersection of the box with a polygon is a polygon: they share area
shares_area(sq, geom) ==
    \E c \in geom.cells :
        /\ RatLt(sq.minx, R(c[1] + 1)) /\ RatLt(R(c[1]), sq.maxx)
        /\ RatLt(sq.miny, R(c[2] + 1)) /\ RatLt(R(c[2]), sq.maxy)

\* valid_data without the test of 地番
valid_data_no_chiban(g) ==
    {i \in 1..Len(g.rows) : ~g.rows[i].geometry.isna}

\* line 263
valid_data(g) ==
    {i \in 1..Len(g.rows) :
        notna(g.rows[i].chiban) /\ ~g.rows[i].geometry.isna}

\* a selection of the rows whose centroid lies within sq
overlay_centroid_within(sq, g, df2) ==
    {i \in df2 :
        LET c == centroid(g.rows[i].geometry)
        IN  /\ RatLt(sq.minx, c.x) /\ RatLt(c.x, sq.maxx)
            /\ RatLt(sq.miny, c.y) /\ RatLt(c.y, sq.maxy)}

\* line 277: df1.overlay(df2, how='intersection') keeps the rows of df2 whose
\* intersection with the polygon sq is a polygon
overlay(sq, g, df2) ==
    {i \in df2 : shares_area(sq, g.rows[i].geometry)}

NoWindow == [built |-> FALSE, cen |-> Point(R(0), R(0)), points |-> <<>>,
             sq |-> convex_hull(<<Point(R(0), R(0))>>)]

Outcome(df_summary, overlay_gdf, message, window) ==
    [ret |-> [df_summary |-> df_summary, overlay_gdf |-> overlay_gdf,
              message |-> message],
     win |-> window]

Failure(kind, info) ==
    Outcome(None(<<>>), None({}),
            [kind |-> kind, debug_info |-> info, targets |-> 0, neighbors |-> 0],
            NoWindow)

\* GeoDataFrame.set_crs(None) on a frame that has no crs is release
\* dependent and the repository pins no release: geopandas before 1.0
\* raises ValueError("Must pass either crs or epsg."), later releases
\* accept None and return the frame without crs.
GeopandasBuilds == {"set_crs_none_raises", "set_crs_none_accepted"}

\* line 260: df1.set_crs(gdf.crs)
set_crs(crs) ==
    [raised |-> crs = NULL /\ geopandas = "set_crs_none_raises", crs |-> crs]

\* .iloc[-1], the last matched row
iloc_last(df) == df[Len(df)]

\* line 238: .iloc[0], the first matched row
iloc0(df) == df[1]

\* lines 149-282
extract_data(g, oaza, chome, koaza, chiban, range_m) ==
    IF missing_columns(g) # <<>> THEN Failure("missing_columns", <<>>)
    ELSE
    LET df == Select(search_condition(g, oaza, chome, koaza, chiban), Len(g.rows))
    IN  IF df = <<>>
        THEN Failure("not_found", debug_info(g, oaza, chome, koaza, chiban))
        ELSE IF COL_GEOMETRY \notin g.columns
        THEN Failure("no_geometry_column", <<>>)
        ELSE IF \E k \in 1..Len(df) : g.rows[df[k]].geometry.isna
        THEN Failure("null_geometry", <<>>)
        ELSE
        LET cen == centroid(g.rows[iloc0(df)].geometry)
            pts == four_points(cen, range_m)
            sq  == convex_hull(pts)
            window == [built |-> TRUE, cen |-> cen, points |-> pts, sq |-> sq]
        IN  IF set_crs(g.crs).raised
            THEN [Failure("error", <<>>) EXCEPT !.win = window]
            ELSE LET overlay_gdf == overlay(sq, g, valid_data(g))
                 IN  Outcome(Some(df), Some(overlay_gdf),
                             [kind |-> "ok", debug_info |-> <<>>,
                              targets |-> Len(df),
                              neighbors |-> Cardinality(overlay_gdf)],
                             window)

-----------------------------------------------------------------------------
(* Datasets and queries *)

MaxRows == 3
MaxMatchRows == 2

\* 大字名 "01", "02", "那覇"; 地番 "100", "101"; 丁目名 "1丁目", "2丁目"; 小字名 "東"
D01 == <<"0", "1">>
D02 == <<"0", "2">>
NAHA == <<"na", "ha">>
P100 == <<"1", "0", "0">>
P101 == <<"1", "0", "1">>
CHOME1 == <<"1">> \o Chome
CHOME2 == <<"2">> \o Chome
HIGASHI == <<"higashi">>
NISHI == <<"nishi">>

\* gdf.crs of a dataset that has one
CRS == <<"EPSG:6691">>

Row(oaza, chome, koaza, chiban, geometry) ==
    [oaza |-> oaza, chome |-> chome, koaza |-> koaza, chiban |-> chiban,
     geometry |-> geometry]

Square(i, j) == Polygon({<<i, j>>})

\* an L-shaped parcel: its centroid (4.1, 1.1) lies outside it
LShape == Polygon({<<3, 0>>, <<4, 0>>, <<5, 0>>, <<3, 1>>, <<3, 2>>})

GeoRows ==
    { Row(D01, NULL, NULL, P100, Square(0, 0)),
      Row(D01, NULL, NULL, P101, Square(1, 1)),
      Row(D02, NULL, NULL, P100, Square(5, 5)),
      Row(D01, NULL, NULL, P100, LShape),
      Row(D01, NULL, NULL, P100, NoGeometry),
      Row(D01, NULL, NULL, NULL, Square(0, 0)),
      Row(NULL, NULL, NULL, P101, Square(2, 0)) }

MatchRows ==
    { Row(D01, CHOME1, HIGASHI, P100, Square(0, 0)),
      Row(D01, CHOME2, NULL, P100, Square(1, 1)),
      Row(NAHA, NULL, HIGASHI, P100, Square(0, 0)),
      Row(D01, CHOME1, HIGASHI, P101, Square(1, 1)),
      Row(NULL, CHOME1, HIGASHI, P100, Square(0, 0)),
      Row(D01, CHOME1, NISHI, NULL, Square(0, 0)),
      Row(D01, NULL, NULL, P100, NoGeometry),
      Row(D01, <<>>, HIGASHI, P100, Square(1, 1)) }

AllColumns == {COL_OAZA, COL_CHOME, COL_KOAZA, COL_CHIBAN, COL_GEOMETRY}

MatchColumns ==
    { AllColumns,
      AllColumns \ {COL_CHOME},
      AllColumns \ {COL_KOAZA},
      AllColumns \ {COL_CHOME, COL_KOAZA},
      AllColumns \ {COL_OAZA},
      AllColumns \ {COL_GEOMETRY} }

SeqsUpTo(S, n) == UNION {[1..k -> S] : k \in 0..n}

GeoRanges == {Rat(0 - 1, 1), Rat(1, 10), Rat(1, 2), Rat(1, 1), Rat(5, 1)}

NoCall == [made |-> FALSE, oaza |-> NULL, chome |-> NULL, koaza |-> NULL,
           chiban |-> NULL, range_m |-> R(0)]

NoRet == [df_summary |-> None(<<>>), overlay_gdf |-> None({}),
          message |-> [kind |-> "none", debug_info |-> <<>>,
                       targets |-> 0, neighbors |-> 0]]

NoPrev == [made |-> FALSE, call |-> NoCall, ret |-> NoRet]

\* lines 26-31: st.session_state once KozuWebExtractor is constructed;
\* keys are the keys its constructor tests and sets, area_data is the key
\* FileProcessor writes
SessionState == [keys |-> {"gdf", "web_files_cache"}, gdf |-> NULL,
                 web_files_cache |-> {}, area_data |-> None({})]

NoTable == [ext |-> "none", member |-> "none", columns |-> <<>>,
            values |-> <<>>]

NoProcessed == [op |-> "none", returned |-> "none", source |-> "none",
                oaza_col |-> None(<<>>), chome_col |-> None(<<>>)]

\* the variables of the operations that are not part of a behaviour
NoFile == table = NoTable /\ processed = NoProcessed

NoName == area_name = NULL /\ normalized = None(<<>>)

NoExtracted == [done |-> FALSE, oaza_matches |-> <<>>, chome_matches |-> <<>>,
                area_data |-> {}]

NoAddress == address = NULL /\ extracted = NoExtracted

NoInvocations == invocation = <<>>

\* no wizard page is open and nothing is being sorted
NoPages == wizard = <<>> /\ sorting = <<>>

NoExtraction ==
    /\ call = NoCall
    /\ ret = NoRet
    /\ win = NoWindow
    /\ prev = NoPrev

\* no parcel dataset is loaded
NoDataset ==
    /\ gdf = [columns |-> {}, crs |-> NULL, rows |-> <<>>]
    /\ geopandas = "set_crs_none_raises"

Fresh ==
    /\ NoExtraction
    /\ session_state = SessionState
    /\ NoFile
    /\ NoName
    /\ NoAddress
    /\ NoInvocations
    /\ NoPages

\* a loaded parcel dataset with geometry of several shapes
Init ==
    /\ \E rows \in SeqsUpTo(GeoRows, MaxRows), crs \in {CRS, NULL} :
          gdf = [columns |-> {COL_OAZA, COL_CHIBAN, COL_GEOMETRY},
                 crs |-> crs, rows |-> rows]
    /\ geopandas \in GeopandasBuilds
    /\ Fresh

\* a loaded parcel dataset with the optional address columns
InitMatch ==
    /\ \E rows \in SeqsUpTo(MatchRows, MaxMatchRows), columns \in MatchColumns :
          gdf = [columns |-> columns, crs |-> CRS, rows |-> rows]
    /\ geopandas = "set_crs_none_raises"
    /\ Fresh

\* extract_data that filters the rows with a null 地番 or geometry out of the
\* caller's frame instead of out of a copy
ExtractData_dropna(oaza, chome, koaza, chiban, range_m) ==
    LET out == extract_data(gdf, oaza, chome, koaza, chiban, range_m)
    IN  /\ ~call.made
        /\ call' = [made |-> TRUE, oaza |-> oaza, chome |-> chome,
                    koaza |-> koaza, chiban |-> chiban, range_m |-> range_m]
        /\ ret' = out.ret
        /\ win' = out.win
        /\ prev' = NoPrev
        /\ gdf' = [gdf EXCEPT !.rows =
                       [k \in 1..Len(Select([i \in 1..Len(gdf.rows) |->
                                                 i \in valid_data(gdf)],
                                             Len(gdf.rows))) |->
                           gdf.rows[Select([i \in 1..Len(gdf.rows) |->
                                               i \in valid_data(gdf)],
                                           Len(gdf.rows))[k]]]]
        /\ UNCHANGED <<geopandas, session_state, table, processed,
                       area_name, normalized, address, extracted, invocation,
                       wizard, sorting>>

\* A behaviour follows one extraction request on the loaded dataset: the
\* call of extract_data, and then possibly one more call for the same address
\* with the same or another range_m.  extract_data keeps nothing between
\* calls, so further calls would reach no other state.
ExtractData(oaza, chome, koaza, chiban, range_m) ==
    LET out == extract_data(gdf, oaza, chome, koaza, chiban, range_m)
    IN  /\ ~call.made
        /\ call' = [made |-> TRUE, oaza |-> oaza, chome |-> chome,
                    koaza |-> koaza, chiban |-> chiban, range_m |-> range_m]
        /\ ret' = out.ret
        /\ win' = out.win
        /\ prev' = NoPrev
        /\ UNCHANGED <<gdf, geopandas, session_state, table, processed,
                       area_name, normalized, address, extracted, invocation,
                       wizard, sorting>>

\* a further call for the same address; the earlier
\* call and its return value are kept for comparison
ExtractDataAgain(range_m) ==
    /\ call.made
    /\ ~prev.made
    /\ LET out == extract_data(gdf, call.oaza, call.chome, call.koaza,
                               call.chiban, range_m)
       IN  /\ call' = [call EXCEPT !.range_m = range_m]
           /\ ret' = out.ret
           /\ win' = out.win
           /\ prev' = [made |-> TRUE, call |-> call, ret |-> ret]
           /\ UNCHANGED <<gdf, geopandas, session_state, table, processed,
                          area_name, normalized, address, extracted, invocation,
                          wizard, sorting>>

Next ==
    \/ \E oaza \in {D01, D02}, chiban \in {P100, P101}, range_m \in GeoRanges :
          ExtractData(oaza, NULL, NULL, chiban, range_m)
    \/ \E range_m \in GeoRanges : ExtractDataAgain(range_m)

NextMatch ==
    \E oaza \in {D01, NAHA},
       chome \in {NULL, SENTAKU_NASHI, <<>>, CHOME1, CHOME_DATA_NASHI},
       koaza \in {NULL, SENTAKU_NASHI, HIGASHI},
       chiban \in {P100, P101} :
          ExtractData(oaza, chome, koaza, chiban, R(1))

Spec == Init /\ [][Next]_vars

SpecMatch == InitMatch /\ [][NextMatch]_vars

-----------------------------------------------------------------------------
(* Properties of the address match *)

RowIds == 1..Len(gdf.rows)

\* the call returned a target set and a neighbor set
Succeeded == call.made /\ ret.message.kind = "ok"
NotFound == call.made /\ ret.message.kind = "not_found"

Targets == Range(ret.df_summary.val)
Neighbors == ret.overlay_gdf.val

\* the query supplies a value for an optional field
Supplied(v) == v # NULL /\ v # SENTAKU_NASHI

\* the optional field takes part in the match
ChomeApplies == COL_CHOME \in gdf.columns /\ Supplied(call.chome)
KoazaApplies == COL_KOAZA \in gdf.columns /\ Supplied(call.koaza)

\* rows whose non-null 大字名 and non-null 地番 equal the query's
AddressRows ==
    {i \in RowIds :
        /\ gdf.rows[i].oaza # NULL /\ gdf.rows[i].oaza = call.oaza
        /\ gdf.rows[i].chiban # NULL /\ gdf.rows[i].chiban = call.chiban}

\* rows of AddressRows that also pass the optional filters that apply
FilteredRows ==
    {i \in AddressRows :
        /\ (ChomeApplies =>
               gdf.rows[i].chome # NULL /\ gdf.rows[i].chome = call.chome)
        /\ (KoazaApplies =>
               gdf.rows[i].koaza # NULL /\ gdf.rows[i].koaza = call.koaza)}

\* the required columns exist, so that the match is made
MatchMade == call.made /\ {COL_OAZA, COL_CHIBAN} \subseteq gdf.columns

\* nothing after the match makes the call fail
GeometryUsable(rows) ==
    /\ COL_GEOMETRY \in gdf.columns
    /\ gdf.crs # NULL
    /\ \A i \in rows : ~gdf.rows[i].geometry.isna

\* C1: when no optional filter applies, the targets extract_data returns are
\* exactly the rows whose non-null 大字名 equals the query district and whose
\* non-null 地番 equals the query parcel number: the call reports "not found"
\* exactly when there is no such row, and otherwise the targets it returns are
\* all of these rows and no other.
C1_TargetsAreAddressRows ==
    (MatchMade /\ ~ChomeApplies /\ ~KoazaApplies) =>
        /\ (NotFound <=> AddressRows = {})
        /\ (Succeeded => Targets = AddressRows)
        /\ (AddressRows # {} /\ GeometryUsable(AddressRows) => Succeeded)

C1_Witness ==
    /\ Succeeded /\ ~ChomeApplies /\ ~KoazaApplies
    /\ Targets = AddressRows
    /\ Targets # {} /\ Targets # RowIds

\* C2: the 丁目名 filter takes part in the match if and only if the dataset
\* has a 丁目名 column and the query supplies a sub-district other than the
\* sentinel 選択なし, and likewise the 小字名 filter; when a filter does not take
\* part the rows' values of that column have no effect on the targets.
C2_OptionalFilters ==
    MatchMade =>
        /\ (NotFound <=> FilteredRows = {})
        /\ (Succeeded => Targets = FilteredRows)
        /\ (FilteredRows # {} /\ GeometryUsable(FilteredRows) => Succeeded)

\* the 丁目名 filter removes a row that matches the address, while the 小字名
\* filter is not applied although the rows differ in 小字名
C2_Witness ==
    /\ Succeeded /\ ChomeApplies /\ ~KoazaApplies
    /\ Targets # AddressRows
    /\ call.koaza = SENTAKU_NASHI /\ COL_KOAZA \in gdf.columns

\* a 大字名 value and a query district that denote the same district: equal
\* after _normalize_area_name, or one the code that _convert_area_code maps
\* to the other
SameDistrict(a, b) ==
    \/ normalize_area_name(a) = normalize_area_name(b)
    \/ convert_area_code(a) = b
    \/ convert_area_code(b) = a

\* C3: values are normalised on both sides before they are compared: a row
\* whose 大字名 is the code "01" is a target of a query that gives the name
\* the code maps to (and the same 地番).
C3_NormalizedMatch ==
    (MatchMade /\ ~ChomeApplies /\ ~KoazaApplies
        /\ (Succeeded \/ NotFound)) =>
        \A i \in RowIds :
            (/\ gdf.rows[i].oaza # NULL
             /\ SameDistrict(gdf.rows[i].oaza, call.oaza)
             /\ gdf.rows[i].chiban # NULL
             /\ gdf.rows[i].chiban = call.chiban
             /\ ~gdf.rows[i].geometry.isna)
            => (Succeeded /\ i \in Targets)

-----------------------------------------------------------------------------
(* Properties of the search window and the neighbors *)

RatPos(r) == r.n * r.d > 0

\* the centroid of the first target, the centre of the search window
Centre == centroid(gdf.rows[ret.df_summary.val[1]].geometry)

\* the square of half-width r around the point c
SquareAround(c, r) ==
    [minx |-> RatSub(c.x, r), maxx |-> RatAdd(c.x, r),
     miny |-> RatSub(c.y, r), maxy |-> RatAdd(c.y, r)]

\* the box and the polygon have a piece of area in common
Overlap(box, geom) ==
    \E c \in geom.cells :
        /\ box.minx.n * 1 < (c[1] + 1) * box.minx.d
        /\ c[1] * box.maxx.d < box.maxx.n
        /\ box.miny.n * 1 < (c[2] + 1) * box.miny.d
        /\ c[2] * box.maxy.d < box.maxy.n

\* the rows with a parcel number and a geometry
Matchable == {i \in RowIds : gdf.rows[i].chiban # NULL /\ ~gdf.rows[i].geometry.isna}

Scenario ==
    /\ gdf.rows = <<Row(D01, NULL, NULL, P100, Square(0, 0)),
                    Row(D01, NULL, NULL, P101, Square(1, 1)),
                    Row(D02, NULL, NULL, P100, Square(5, 5))>>
    /\ gdf.crs # NULL
    /\ call.made /\ call.oaza = D01 /\ call.chiban = P100
    /\ call.range_m = R(1)

\* C4: on a successful extraction with range_m > 0 the neighbors are exactly
\* the rows with non-null 地番 and non-null geometry (whatever their 大字名)
\* whose geometry has area in common with the search window, the square of
\* half-width range_m around the first target's centroid; in the three-parcel
\* scenario the target is the first parcel and the neighbors are the first two.
C4_NeighborsIntersectWindow ==
    /\ (Succeeded /\ RatPos(call.range_m)) =>
          Neighbors = {i \in Matchable :
                          Overlap(SquareAround(Centre, call.range_m),
                                  gdf.rows[i].geometry)}
    /\ Scenario =>
          Succeeded /\ ret.df_summary.val = <<1>> /\ Neighbors = {1, 2}

C4_Witness == Scenario /\ Succeeded /\ Neighbors = {1, 2}

\* C5: the search window built around the centroid (x, y) has the corners
\* (x-r, y-r), (x-r, y+r), (x+r, y-r), (x+r, y+r), r = range_m, and is the
\* square they span.
C5_WindowCorners ==
    win.built =>
        LET x == win.cen.x
            y == win.cen.y
            r == call.range_m
            corners == {Point(RatSub(x, r), RatSub(y, r)),
                        Point(RatSub(x, r), RatAdd(y, r)),
                        Point(RatAdd(x, r), RatSub(y, r)),
                        Point(RatAdd(x, r), RatAdd(y, r))}
        IN  /\ Succeeded => win.cen = Centre
            /\ \A e \in corners : \E k \in 1..4 : PointEq(win.points[k], e)
            /\ \A k \in 1..4 : \E e \in corners : PointEq(win.points[k], e)
            /\ RatPos(r) =>
                  /\ RatEq(win.sq.minx, RatSub(x, r))
                  /\ RatEq(win.sq.maxx, RatAdd(x, r))
                  /\ RatEq(win.sq.miny, RatSub(y, r))
                  /\ RatEq(win.sq.maxy, RatAdd(y, r))

\* a window around a centroid with x # y
C5_Witness ==
    /\ Succeeded /\ win.built /\ RatPos(call.range_m)
    /\ ~RatEq(win.cen.x, win.cen.y)

\* the rows that carry the address of the call and have a geometry
OwnAddress ==
    {i \in RowIds :
        /\ gdf.rows[i].oaza # NULL /\ gdf.rows[i].oaza = call.oaza
        /\ gdf.rows[i].chiban # NULL /\ gdf.rows[i].chiban = call.chiban
        /\ ~gdf.rows[i].geometry.isna}

\* the polygon contains its own centroid
CoversCentroid(geom) ==
    LET c == centroid(geom)
    IN  \E k \in geom.cells :
            /\ k[1] * c.x.d <= c.x.n /\ c.x.n <= (k[1] + 1) * c.x.d
            /\ k[2] * c.y.d <= c.y.n /\ c.y.n <= (k[2] + 1) * c.y.d

\* C6 as stated: every parcel P with non-null 大字名, 地番 and geometry is among
\* the neighbors that a call with P's own address and range_m > 0 returns.
C6_SelfInclusion ==
    (Succeeded /\ RatPos(call.range_m)) =>
        \A i \in OwnAddress : i \in Neighbors

\* C6 as amended: when a call with P's own address and range_m > 0 succeeds
\* and P is the first row of the dataset with that address and P's geometry
\* contains its own centroid, then P is among the neighbors.
C6_FirstMatchSelfInclusion ==
    (Succeeded /\ RatPos(call.range_m)) =>
        \A i \in OwnAddress :
            (/\ \A j \in OwnAddress : i <= j
             /\ CoversCentroid(gdf.rows[i].geometry))
            => i \in Neighbors

\* two rows share the address and the first of them is a neighbor
C6_Witness ==
    /\ Succeeded /\ RatPos(call.range_m)
    /\ Cardinality(OwnAddress) >= 2
    /\ \E i \in OwnAddress :
          /\ \A j \in OwnAddress : i <= j
          /\ CoversCentroid(gdf.rows[i].geometry)
          /\ i \in Neighbors
          /\ OwnAddress \ Neighbors # {}

\* C7: for the same dataset and the same targets, the neighbors of a call with
\* range r1 are among the neighbors of a call with a larger range r2
\* (0 < r1 < r2).
C7_Monotonicity ==
    (/\ prev.made /\ prev.ret.message.kind = "ok" /\ Succeeded
     /\ prev.ret.df_summary = ret.df_summary
     /\ RatPos(prev.call.range_m) /\ RatPos(call.range_m)) =>
        /\ RatLt(prev.call.range_m, call.range_m) =>
              prev.ret.overlay_gdf.val \subseteq Neighbors
        /\ RatLt(call.range_m, prev.call.range_m) =>
              Neighbors \subseteq prev.ret.overlay_gdf.val

\* the larger range adds a neighbor
C7_Witness ==
    /\ prev.made /\ prev.ret.message.kind = "ok" /\ Succeeded
    /\ RatPos(prev.call.range_m)
    /\ RatLt(prev.call.range_m, call.range_m)
    /\ prev.ret.overlay_gdf.val # {}
    /\ prev.ret.overlay_gdf.val \subseteq Neighbors
    /\ prev.ret.overlay_gdf.val # Neighbors

\* C8: no row with a null 地番 or a null geometry is among the targets or the
\* neighbors that extract_data returns.
C8_NullExclusion ==
    \A i \in Targets \cup Neighbors :
        gdf.rows[i].chiban # NULL /\ ~gdf.rows[i].geometry.isna

\* a successful call on a dataset with a null-geometry row and with a
\* null-地番 row whose geometry lies in the search window
C8_Witness ==
    /\ Succeeded
    /\ \E i \in RowIds : gdf.rows[i].geometry.isna
    /\ \E i \in RowIds :
          /\ gdf.rows[i].chiban = NULL
          /\ ~gdf.rows[i].geometry.isna
          /\ Overlap(win.sq, gdf.rows[i].geometry)

-----------------------------------------------------------------------------
(* Properties of the diagnostics of an empty match *)

Reported(col) ==
    \E k \in 1..Len(ret.message.debug_info) : ret.message.debug_info[k].col = col

ReportedCount(col) ==
    LET k == CHOOSE k \in 1..Len(ret.message.debug_info) :
                 ret.message.debug_info[k].col = col
    IN  ret.message.debug_info[k].count

\* the rows whose non-null value of column col equals v
RowsWith(col, v) ==
    {i \in RowIds : gdf.rows[i][col] # NULL /\ gdf.rows[i][col] = v}

\* C9: when no row matches, the diagnostics give the number of rows whose
\* non-null 大字名 equals the query district and the number of rows whose
\* non-null 地番 equals the query parcel number, each counted on its own.
C9_DiagnosticCounts ==
    NotFound =>
        /\ Reported(COL_OAZA) /\ Reported(COL_CHIBAN)
        /\ ReportedCount(COL_OAZA) = Cardinality(RowsWith(COL_OAZA, call.oaza))
        /\ ReportedCount(COL_CHIBAN) = Cardinality(RowsWith(COL_CHIBAN, call.chiban))

\* a row matches the district only, a row with a null 大字名 matches the
\* parcel number only, and no row matches both
C9_Witness ==
    /\ NotFound
    /\ ReportedCount(COL_OAZA) >= 1
    /\ ReportedCount(COL_CHIBAN) >= 1
    /\ \E i \in RowIds :
          gdf.rows[i].oaza = NULL /\ gdf.rows[i].chiban = call.chiban

\* C10: when no row matches, the diagnostics hold a 丁目名 count if and only if
\* the 丁目名 filter was part of the search condition, and a 小字名 count if and
\* only if the 小字名 filter was.
C10_DiagnosticsCoverFilters ==
    NotFound =>
        /\ Reported(COL_CHOME) <=> chome_filter_added(gdf, call.chome)
        /\ Reported(COL_KOAZA) <=> koaza_filter_added(gdf, call.koaza)

-----------------------------------------------------------------------------
(* Properties of the outcomes of extract_data *)

\* C11: a query that no row matches is answered by a return value and not by
\* an exception: the call returns no targets and no neighbors, the message is
\* the "not found" message with the counts of the 大字名 and 地番 matches, and
\* no centroid, window or intersection has been computed.
C11_NoMatchIsValue ==
    (MatchMade /\ FilteredRows = {}) =>
        /\ ret.message.kind = "not_found"
        /\ ret.df_summary.none /\ ret.overlay_gdf.none
        /\ Reported(COL_OAZA) /\ Reported(COL_CHIBAN)
        /\ ~win.built

\* the dataset has rows, rows with the district and rows with the parcel
\* number, and none matches the query
C11_Witness ==
    /\ MatchMade /\ FilteredRows = {} /\ RowIds # {}
    /\ ret.message.kind = "not_found"
    /\ ret.df_summary.none /\ ret.overlay_gdf.none /\ ~win.built
    /\ Len(ret.message.debug_info) >= 2

\* the first of the rows that carry the address of the call
FirstMatch == CHOOSE i \in AddressRows : \A j \in AddressRows : i <= j

\* C12: when several rows match the address, the targets are all of them and
\* the window is centred on the centroid of the first of them in dataset
\* order.
C12_WindowAroundFirstMatch ==
    (Succeeded /\ ~ChomeApplies /\ ~KoazaApplies) =>
        /\ Targets = AddressRows
        /\ win.built
        /\ win.cen = centroid(gdf.rows[FirstMatch].geometry)

\* two rows match and the centroid of the second is not the window's centre
C12_Witness ==
    /\ Succeeded /\ win.built
    /\ Cardinality(Targets) >= 2
    /\ win.cen = centroid(gdf.rows[FirstMatch].geometry)
    /\ \E j \in Targets :
          ~PointEq(centroid(gdf.rows[j].geometry), win.cen)

\* C13 as stated: on a dataset whose crs is None the call returns no neighbor
\* set, and when rows match and have geometry it returns the error message.
C13_UndefinedCrsFails ==
    (MatchMade /\ gdf.crs = NULL) =>
        /\ ret.overlay_gdf.none
        /\ (FilteredRows # {} /\ COL_GEOMETRY \in gdf.columns
            /\ (\A i \in FilteredRows : ~gdf.rows[i].geometry.isna))
           => ret.message.kind = "error"

\* C14 as stated: when rows that match the address have a geometry, the call
\* succeeds on a dataset with geometry column and crs, and its targets are
\* the matching rows that have a geometry; a matching row with a null
\* geometry is left out.
C14_NullGeometryMatchExcluded ==
    (/\ MatchMade /\ ~ChomeApplies /\ ~KoazaApplies
     /\ COL_GEOMETRY \in gdf.columns /\ gdf.crs # NULL
     /\ OwnAddress # {}) =>
        /\ Succeeded
        /\ Targets = OwnAddress

-----------------------------------------------------------------------------
(* FileProcessor: column roles and area data                               *)
(*                                                                         *)
(* A column name is a str: Latin letters are one element each, a kanji is  *)
(* its reading (大字名 is <<"oo", "aza", "mei">>).  A dict is the set of   *)
(* its <<key, value>> pairs; a sorted list of distinct strings is the set  *)
(* of them.                                                                *)

\* keyword in col_lower
contains(keyword, s) ==
    \E i \in 1..(Len(s) - Len(keyword) + 1) :
        SubSeq(s, i, i + Len(keyword) - 1) = keyword

Max(S) == CHOOSE m \in S : \A x \in S : x <= m

GEOMETRY == <<"g", "e", "o", "m", "e", "t", "r", "y">>

\* lines 373-383 and 496-506: 大字, oaza, 町名, 地区名, 区域, name, 名称, 地域, area
priority_keywords ==
    << << <<"oo", "aza">>, 10 >>,
       << <<"o", "a", "z", "a">>, 9 >>,
       << <<"machi", "mei">>, 8 >>,
       << <<"chi", "ku", "mei">>, 7 >>,
       << <<"ku", "iki">>, 6 >>,
       << <<"n", "a", "m", "e">>, 5 >>,
       << <<"mei", "shou">>, 5 >>,
       << <<"chi", "iki">>, 4 >>,
       << <<"a", "r", "e", "a">>, 3 >> >>

\* lines 411-419 and 531-539: 丁目, chome, 番地, 番, 小字, koaza, block
chome_keywords ==
    << << <<"chou", "me">>, 10 >>,
       << <<"c", "h", "o", "m", "e">>, 9 >>,
       << <<"ban", "chi">>, 8 >>,
       << <<"ban">>, 7 >>,
       << <<"chiisai", "aza">>, 6 >>,
       << <<"k", "o", "a", "z", "a">>, 5 >>,
       << <<"b", "l", "o", "c", "k">>, 4 >> >>

\* lines 599-607: name, 名, 地区, 区域, 町, 村, area
keywords ==
    << << <<"n", "a", "m", "e">>, 10 >>,
       << <<"mei">>, 9 >>,
       << <<"chi", "ku">>, 8 >>,
       << <<"ku", "iki">>, 7 >>,
       << <<"machi">>, 6 >>,
       << <<"mura">>, 5 >>,
       << <<"a", "r", "e", "a">>, 4 >> >>

\* lines 389-394: the greatest priority of the keywords that occur in the
\* lower-cased column name, 0 when none occurs
max_priority(col, kws) ==
    LET col_lower == lower(col)
        hits == {kws[k][2] : k \in {k \in DOMAIN kws : contains(kws[k][1], col_lower)}}
    IN  IF hits = {} THEN 0 ELSE Max(hits)

\* lines 385-397: the <<column, priority>> pairs of the columns that match a
\* keyword, in schema order, the columns of skip left out
candidates(columns, skip, kws) ==
    LET keep == SelectSeq(columns,
                          LAMBDA col : col \notin skip /\ max_priority(col, kws) > 0)
    IN  [k \in 1..Len(keep) |-> <<keep[k], max_priority(keep[k], kws)>>]

\* list.sort(key=lambda x: x[1], reverse=True): by decreasing priority, the
\* pairs of equal priority in their original order (the sort is stable)
sort_reverse(cols) ==
    LET before(i, j) == \/ cols[i][2] > cols[j][2]
                        \/ cols[i][2] = cols[j][2] /\ i < j
        rank(i) == 1 + Cardinality({j \in DOMAIN cols : before(j, i)})
    IN  [k \in DOMAIN cols |-> cols[CHOOSE i \in DOMAIN cols : rank(i) = k]]

\* Series.dropna().unique(): the distinct non-null values in order of first
\* appearance
unique(values) ==
    LET first == SelectSeq([k \in DOMAIN values |-> k],
                           LAMBDA k : /\ values[k] # NULL
                                      /\ \A j \in 1..(k - 1) : values[j] # values[k])
    IN  [k \in DOMAIN first |-> values[first[k]]]

\* the non-empty normalised names of a sequence of values
normalized_names(values) ==
    {normalize_area_name(values[k]) : k \in DOMAIN values} \ {<<>>}

\* d[key] = value on a dict
put(d, key, value) == {p \in d : p[1] # key} \cup {<<key, value>>}

\* df[col]: the values of a column, one for each row
series(t, col) ==
    t.values[CHOOSE k \in DOMAIN t.columns : t.columns[k] = col]

\* lines 453-462 and 568-577: the 丁目 list of the rows whose 大字 value is oaza
chome_list(t, oaza_col, chome_col, oaza) ==
    LET oaza_data == SelectSeq([k \in DOMAIN series(t, oaza_col) |-> k],
                               LAMBDA k : eq(series(t, oaza_col)[k], oaza))
        chome_values == unique([k \in DOMAIN oaza_data |->
                                   series(t, chome_col)[oaza_data[k]]])
        chome_str_list == normalized_names(chome_values)
    IN  IF chome_str_list # {} THEN chome_str_list ELSE {CHOME_DATA_NASHI}

\* lines 442-464 and 559-579: the loop over oaza_values from its n-th value
\* on, area_data being the dict built so far; a value whose normalised name
\* is already a key replaces the entry
RECURSIVE collect(_, _, _, _, _, _)
collect(t, oaza_col, chome_columns, oaza_values, n, area_data) ==
    IF n > Len(oaza_values) THEN area_data
    ELSE IF normalize_area_name(oaza_values[n]) = <<>>
    THEN collect(t, oaza_col, chome_columns, oaza_values, n + 1, area_data)
    ELSE IF chome_columns # <<>>
    THEN collect(t, oaza_col, chome_columns, oaza_values, n + 1,
                 put(area_data, normalize_area_name(oaza_values[n]),
                     chome_list(t, oaza_col, chome_columns[1][1], oaza_values[n])))
    ELSE collect(t, oaza_col, chome_columns, oaza_values, n + 1,
                 put(area_data, normalize_area_name(oaza_values[n]),
                     {CHOME_DATA_NASHI}))

NoRoles == [area_data |-> None({}), oaza_col |-> None(<<>>),
            chome_col |-> None(<<>>)]

\* lines 438-476 and 555-588
area_data_of(t, oaza_col, chome_columns) ==
    LET oaza_values == unique(series(t, oaza_col))
        area_data == collect(t, oaza_col, chome_columns, oaza_values, 1, {})
    IN  [area_data |-> IF area_data # {} THEN Some(area_data) ELSE None({}),
         oaza_col  |-> Some(oaza_col),
         chome_col |-> IF chome_columns # <<>> THEN Some(chome_columns[1][1])
                       ELSE None(<<>>)]

\* FileProcessor._extract_area_data_from_gdf
extract_area_data_from_gdf(t) ==
    LET oaza_columns == sort_reverse(candidates(t.columns, {GEOMETRY},
                                                priority_keywords))
    IN  IF oaza_columns = <<>> THEN NoRoles
        ELSE LET oaza_col == oaza_columns[1][1]
                 chome_columns ==
                     sort_reverse(candidates(t.columns, {GEOMETRY, oaza_col},
                                             chome_keywords))
             IN  area_data_of(t, oaza_col, chome_columns)

\* FileProcessor._extract_area_data_from_df: chome_columns is not sorted
extract_area_data_from_df(t) ==
    LET oaza_columns == sort_reverse(candidates(t.columns, {}, priority_keywords))
    IN  IF oaza_columns = <<>> THEN NoRoles
        ELSE LET oaza_col == oaza_columns[1][1]
                 chome_columns == candidates(t.columns, {oaza_col}, chome_keywords)
             IN  area_data_of(t, oaza_col, chome_columns)

DigitOf(k) == CHOOSE c \in Digits : DigitVal(c) = k

\* the N丁目 lists of the dummy data
ChomeUpTo(n) == {<<DigitOf(k)>> \o Chome : k \in 1..n}

\* lines 652-669
dummy_area_data ==
    { <<Lookup(<<"0", "1">>), ChomeUpTo(3)>>, <<Lookup(<<"0", "2">>), ChomeUpTo(5)>>,
      <<Lookup(<<"0", "3">>), ChomeUpTo(3)>>, <<Lookup(<<"0", "4">>), ChomeUpTo(3)>>,
      <<Lookup(<<"0", "5">>), ChomeUpTo(3)>>, <<Lookup(<<"0", "6">>), ChomeUpTo(3)>>,
      <<Lookup(<<"0", "7">>), ChomeUpTo(2)>>, <<Lookup(<<"0", "8">>), ChomeUpTo(3)>>,
      <<Lookup(<<"1", "1">>), ChomeUpTo(4)>>, <<Lookup(<<"1", "2">>), ChomeUpTo(4)>>,
      <<Lookup(<<"1", "3">>), ChomeUpTo(3)>>, <<Lookup(<<"1", "4">>), ChomeUpTo(2)>>,
      <<Lookup(<<"2", "1">>), ChomeUpTo(7)>>, <<Lookup(<<"2", "2">>), ChomeUpTo(3)>>,
      <<Lookup(<<"2", "3">>), ChomeUpTo(2)>>, <<Lookup(<<"2", "4">>), ChomeUpTo(4)>> }

\* the return value of a processing step, the value it stores in
\* st.session_state.area_data (if any) and where that value comes from
Result(returned, area_data, source, roles) ==
    [returned |-> returned, area_data |-> area_data, source |-> source,
     oaza_col |-> roles.oaza_col, chome_col |-> roles.chome_col]

\* FileProcessor._create_dummy_area_data
create_dummy_area_data(roles) ==
    Result("True", Some(dummy_area_data), "dummy", roles)

DATA_NASHI == <<"de", "-", "ta", "na", "shi">>      \* データなし

\* FileProcessor._create_basic_area_data_from_gdf
create_basic_area_data_from_gdf(t, roles) ==
    LET area_columns == sort_reverse(candidates(t.columns, {GEOMETRY}, keywords))
    IN  IF area_columns = <<>> THEN create_dummy_area_data(roles)
        ELSE LET area_col == area_columns[1][1]
                 unique_areas == unique(series(t, area_col))
                 area_data == {<<n, {DATA_NASHI}>> : n \in normalized_names(unique_areas)}
             IN  IF area_data # {}
                 THEN Result("True", Some(area_data), "basic", roles)
                 ELSE create_dummy_area_data(roles)

\* lines 231-235, 280-284, 313-317, 346-350, 709-713, 730-734, 756-760: the
\* extracted area data, when there is one, is stored and True is returned
stored(roles) == Result("True", roles.area_data, "extracted", roles)

NotProcessed(roles) == Result("False", None({}), "none", roles)

\* FileProcessor._try_process_shapefiles
try_process_shapefiles(t) ==
    IF t.member # ".shp" THEN NotProcessed(NoRoles)
    ELSE LET roles == extract_area_data_from_gdf(t)
         IN  IF ~roles.area_data.none THEN stored(roles)
             ELSE create_basic_area_data_from_gdf(t, roles)

\* FileProcessor._try_process_csv_files
try_process_csv_files(t) ==
    IF t.member # ".csv" THEN NotProcessed(NoRoles)
    ELSE LET roles == extract_area_data_from_df(t)
         IN  IF ~roles.area_data.none THEN stored(roles) ELSE NotProcessed(roles)

\* FileProcessor._try_process_excel_files
try_process_excel_files(t) ==
    IF t.member # ".xlsx" THEN NotProcessed(NoRoles)
    ELSE LET roles == extract_area_data_from_df(t)
         IN  IF ~roles.area_data.none THEN stored(roles) ELSE NotProcessed(roles)

\* FileProcessor._try_process_other_gis_files
try_process_other_gis_files(t) ==
    IF t.member # ".geojson" THEN NotProcessed(NoRoles)
    ELSE LET roles == extract_area_data_from_gdf(t)
         IN  IF ~roles.area_data.none THEN stored(roles) ELSE NotProcessed(roles)

\* lines 163-188: the result of the first step that returned True, and the
\* dummy data when none did; the columns a failed step resolved are kept in
\* the record
first_success(steps) ==
    IF \E k \in DOMAIN steps : steps[k].returned = "True"
    THEN steps[CHOOSE k \in DOMAIN steps :
                   /\ steps[k].returned = "True"
                   /\ \A j \in 1..(k - 1) : steps[j].returned # "True"]
    ELSE IF \E k \in DOMAIN steps : ~steps[k].oaza_col.none
    THEN create_dummy_area_data(
             steps[CHOOSE k \in DOMAIN steps : ~steps[k].oaza_col.none])
    ELSE create_dummy_area_data(NoRoles)

\* FileProcessor._process_zip_file, lines 163-188
process_zip_file(t) ==
    CHOOSE result \in
        {first_success(steps) :
            steps \in {<<try_process_shapefiles(t), try_process_csv_files(t),
                         try_process_excel_files(t),
                         try_process_other_gis_files(t)>>}} : TRUE

\* FileProcessor._process_data_file, lines 708-715
process_data_file(t) ==
    LET roles == extract_area_data_from_df(t)
    IN  IF ~roles.area_data.none THEN stored(roles)
        ELSE create_dummy_area_data(roles)

\* FileProcessor._process_shapefile, lines 730-736
process_shapefile(t) ==
    LET roles == extract_area_data_from_gdf(t)
    IN  IF ~roles.area_data.none THEN stored(roles)
        ELSE create_dummy_area_data(roles)

\* FileProcessor._process_gis_file, lines 756-762
process_gis_file(t) ==
    LET roles == extract_area_data_from_gdf(t)
    IN  IF ~roles.area_data.none THEN stored(roles)
        ELSE create_dummy_area_data(roles)

\* FileProcessor.process_file
process_file(t) ==
    CASE t.ext = ".zip" -> process_zip_file(t)
      [] t.ext \in {".csv", ".xlsx"} -> process_data_file(t)
      [] t.ext = ".shp" -> process_shapefile(t)
      [] t.ext \in {".kml", ".geojson"} -> process_gis_file(t)
      [] OTHER -> NotProcessed(NoRoles)

\* the columns a file may have, each with the values of its three rows
MaxColumns == 3

OOYAMA == Lookup(<<"2", "1">>)
SHURI == Lookup(<<"0", "2">>)
TOMARI == Lookup(<<"0", "4">>)

Column(col, values) == [col |-> col, values |-> values]

ColumnCatalogue ==
    { Column(<<"oo", "aza", "mei">>, << <<"2", "1">>, OOYAMA, NULL >>),        \* 大字名
      Column(<<"machi", "mei">>, <<SHURI, SHURI, TOMARI>>),                    \* 町名
      Column(<<"N", "A", "M", "E">>, <<NAHA, NULL, NAHA>>),
      Column(<<"mei", "shou">>, <<NULL, NULL, NULL>>),                         \* 名称
      Column(<<"chou", "me", "mei">>, << <<"1">>, <<"2">>, NULL >>),           \* 丁目名
      Column(<<"b", "l", "o", "c", "k">>, << <<"A">>, <<"B">>, <<"A">> >>),
      Column(<<"k", "o", "a", "z", "a">>, <<HIGASHI, NISHI, NULL>>),
      Column(<<"c", "h", "o", "m", "e", "_", "n", "a", "m", "e">>,
             <<CHOME1, CHOME1, CHOME2>>),
      Column(<<"i", "d">>, << <<"1">>, <<"2">>, <<"3">> >>),
      Column(<<"chi", "ban">>, <<P100, P101, P100>>),                          \* 地番
      Column(<<"shi", "machi", "mura">>,                                       \* 市町村
             <<SHURI \o <<"shi">>, SHURI \o <<"shi">>, SHURI \o <<"shi">> >>) }

\* the files: an archive with one member, or a single file
FileKinds ==
    {[ext |-> ".zip", member |-> m] : m \in {".shp", ".csv", ".xlsx", ".geojson", ".txt"}}
    \cup {[ext |-> e, member |-> "none"] :
              e \in {".csv", ".xlsx", ".shp", ".geojson", ".kml", ".txt"}}

\* the extension of the file that holds the table
DataExt(t) == IF t.ext = ".zip" THEN t.member ELSE t.ext

\* gpd.read_file gives the table a geometry column
IsGeo(ext) == ext \in {".shp", ".geojson", ".kml"}

Injective(f) == \A i, j \in DOMAIN f : f[i] = f[j] => i = j

Tables ==
    {[ext |-> kind.ext, member |-> kind.member,
      columns |-> [k \in DOMAIN cols |-> cols[k].col]
                  \o (IF IsGeo(DataExt(kind)) THEN <<GEOMETRY>> ELSE <<>>),
      values |-> [k \in DOMAIN cols |-> cols[k].values]
                 \o (IF IsGeo(DataExt(kind)) THEN << <<NULL, NULL, NULL>> >> ELSE <<>>)] :
        kind \in FileKinds,
        cols \in {c \in SeqsUpTo(ColumnCatalogue, MaxColumns) : Injective(c)}}

\* a file has been uploaded and read
InitFiles ==
    /\ NoDataset
    /\ NoExtraction
    /\ session_state = SessionState
    /\ table \in Tables
    /\ processed = NoProcessed
    /\ NoName
    /\ NoAddress
    /\ NoInvocations
    /\ NoPages

\* FileProcessor.process_file on the uploaded file
ProcessFile ==
    \E out \in {process_file(table)} :
        /\ processed.op = "none"
        /\ processed' = [op |-> "process_file", returned |-> out.returned,
                         source |-> out.source, oaza_col |-> out.oaza_col,
                         chome_col |-> out.chome_col]
        /\ session_state' =
               IF out.area_data.none THEN session_state
               ELSE [session_state EXCEPT !.area_data = out.area_data]
        /\ UNCHANGED <<gdf, call, ret, win, prev, geopandas, table,
                       area_name, normalized, address, extracted, invocation,
                       wizard, sorting>>

NextFiles == ProcessFile

SpecFiles == InitFiles /\ [][NextFiles]_vars

-----------------------------------------------------------------------------
(* Properties of the column roles *)

Columns == DOMAIN table.columns

\* process_file has read the table and looked for its columns
Resolved ==
    /\ processed.op = "process_file"
    /\ DataExt(table) \in {".shp", ".geojson", ".kml", ".csv", ".xlsx"}

\* the priority of column k in the 大字 and in the 丁目 category
OazaScore(k) == max_priority(table.columns[k], priority_keywords)
ChomeScore(k) == max_priority(table.columns[k], chome_keywords)

\* the columns that match a keyword of the category
OazaFields == {k \in Columns : table.columns[k] # GEOMETRY /\ OazaScore(k) > 0}
ChomeFields ==
    {k \in Columns :
        /\ table.columns[k] # GEOMETRY /\ ChomeScore(k) > 0
        /\ (~processed.oaza_col.none => table.columns[k] # processed.oaza_col.val)}

\* C15 as stated: when no column name holds a 大字 keyword, no 大字 column is
\* resolved, nothing is stored in st.session_state.area_data and
\* process_file does not return True.
C15_NoGuessedDistricts ==
    (Resolved /\ OazaFields = {}) =>
        /\ processed.oaza_col.none
        /\ session_state.area_data.none
        /\ processed.returned # "True"

\* C16 as stated: the 大字 column is the first in schema order of the columns
\* of greatest 大字 priority, and the 丁目 column is the first in schema order
\* of the remaining columns of greatest 丁目 priority, for a GeoDataFrame and
\* for a DataFrame.
C16_MaxPriorityFirstInOrder ==
    Resolved =>
        /\ OazaFields # {} =>
              \E k \in OazaFields :
                  /\ processed.oaza_col = Some(table.columns[k])
                  /\ \A j \in OazaFields :
                        \/ OazaScore(j) < OazaScore(k)
                        \/ OazaScore(j) = OazaScore(k) /\ k <= j
        /\ (OazaFields # {} /\ ChomeFields # {}) =>
              \E k \in ChomeFields :
                  /\ processed.chome_col = Some(table.columns[k])
                  /\ \A j \in ChomeFields :
                        \/ ChomeScore(j) < ChomeScore(k)
                        \/ ChomeScore(j) = ChomeScore(k) /\ k <= j

\* C17 as stated: a column has at most one role, and it is the role of the
\* category in which its name has the greater priority: the 大字 column does
\* not score higher as 丁目, and the 丁目 column does not score higher as 大字.
C17_RoleOfBestKeyword ==
    Resolved =>
        /\ (~processed.oaza_col.none /\ ~processed.chome_col.none) =>
               processed.oaza_col.val # processed.chome_col.val
        /\ ~processed.oaza_col.none =>
               max_priority(processed.oaza_col.val, chome_keywords)
                   <= max_priority(processed.oaza_col.val, priority_keywords)
        /\ ~processed.chome_col.none =>
               max_priority(processed.chome_col.val, priority_keywords)
                   <= max_priority(processed.chome_col.val, chome_keywords)

-----------------------------------------------------------------------------
(* FileProcessor._normalize_area_name on its own *)

\* the longest numeric name
MaxDigits == 3

\* the names: every digit string up to MaxDigits digits, and names that are
\* missing, blank, padded with blanks, "nan" in either case, or text
NameInputs ==
    (SeqsUpTo(Digits, MaxDigits) \ {<<>>})
    \cup {NULL, <<>>, <<" ">>, <<"n", "a", "n">>, <<"N", "A", "N">>,
          <<" ", "2", "1", " ">>, <<" ", "7">>, NAHA, OOYAMA, CHOME1,
          <<" ">> \o SHURI}

InitNames ==
    /\ NoDataset
    /\ NoExtraction
    /\ session_state = SessionState
    /\ NoFile
    /\ area_name \in NameInputs
    /\ normalized = None(<<>>)
    /\ NoAddress
    /\ NoInvocations
    /\ NoPages

\* FileProcessor._normalize_area_name on the name
NormalizeAreaName ==
    /\ normalized.none
    /\ normalized' = Some(normalize_area_name(area_name))
    /\ UNCHANGED <<gdf, call, ret, win, prev, geopandas, session_state, table,
                   processed, area_name, address, extracted, invocation,
                   wizard, sorting>>

NextNames == NormalizeAreaName

SpecNames == InitNames /\ [][NextNames]_vars

\* the name is a non-empty string of digits
Numeric(v) == v # NULL /\ Len(v) > 0 /\ \A k \in 1..Len(v) : v[k] \in Digits

\* the forms under which a code is looked up: as given and padded with zeros
\* to two and to three digits
Forms(v) == {v, zfill(v, 2), zfill(v, 3)}

\* the names the table gives for the forms of a code
Mapped(v) == {p[2] : p \in {q \in okinawa_patterns : q[1] \in Forms(v)}}

-----------------------------------------------------------------------------
(* DataProcessor.extract_area_from_dataframe: areas from an address string *)

OAZA == <<"oo", "aza">>         \* 大字
BANCHI == <<"ban", "chi">>      \* 番地

\* the string has the marker at position i
at(s, i, marker) ==
    i >= 1 /\ i + Len(marker) - 1 <= Len(s)
    /\ SubSeq(s, i, i + Len(marker) - 1) = marker

\* (?:[0-9]|丁目|$), without the alternative 番地
terminator_no_banchi(s, e) ==
    IF e = Len(s) + 1 THEN 0
    ELSE IF s[e] \in Digits THEN 1
    ELSE IF at(s, e, Chome) THEN 2
    ELSE 0 - 1

\* (?:[0-9]|丁目|番地|$) at position e: the length of what it matches there,
\* -1 when it does not match
terminator(s, e) ==
    IF e = Len(s) + 1 THEN 0
    ELSE IF s[e] \in Digits THEN 1
    ELSE IF at(s, e, Chome) THEN 2
    ELSE IF at(s, e, BANCHI) THEN 2
    ELSE 0 - 1

\* (.+?) from position g: the least end e > g at which the terminator matches
lazy_end(s, g) ==
    CHOOSE e \in (g + 1)..(Len(s) + 1) :
        /\ terminator(s, e) >= 0
        /\ \A d \in (g + 1)..(e - 1) : terminator(s, d) < 0

\* 大字 at position i with a character after it for (.+?)
oaza_at(s, i) == at(s, i, OAZA) /\ i + 2 <= Len(s)

\* re.findall(r'大字(.+?)(?:[0-9]|丁目|番地|$)', address) from position p on:
\* for each match the position of 大字, the group and the position after the
\* match, where the search for the next match starts
RECURSIVE oaza_findall(_, _)
oaza_findall(s, p) ==
    IF \A i \in p..Len(s) : ~oaza_at(s, i) THEN <<>>
    ELSE LET i == CHOOSE i \in p..Len(s) :
                      oaza_at(s, i) /\ \A j \in p..(i - 1) : ~oaza_at(s, j)
             e == lazy_end(s, i + 2)
         IN  <<[start |-> i, group |-> SubSeq(s, i + 2, e - 1),
                stop |-> e + terminator(s, e)]>>
             \o oaza_findall(s, e + terminator(s, e))

\* [0-9]+ from position i: the position of the last digit of the run
run_end(s, i) ==
    CHOOSE j \in i..Len(s) :
        /\ \A k \in i..j : s[k] \in Digits
        /\ (j = Len(s) \/ s[j + 1] \notin Digits)

\* ([0-9]+丁目) matches at position i
chome_at(s, i) == s[i] \in Digits /\ at(s, run_end(s, i) + 1, Chome)

\* re.findall(r'([0-9]+丁目)', address) from position p on
RECURSIVE chome_findall(_, _)
chome_findall(s, p) ==
    IF \A i \in p..Len(s) : ~chome_at(s, i) THEN <<>>
    ELSE LET i == CHOOSE i \in p..Len(s) :
                      chome_at(s, i) /\ \A j \in p..(i - 1) : ~chome_at(s, j)
         IN  <<[start |-> i, group |-> SubSeq(s, i, run_end(s, i) + 2)]>>
             \o chome_findall(s, run_end(s, i) + 3)

\* lines 173-187 of utils.py and 453-467 of prefecture_city_selector.py, for
\* the address of one row: every stripped, non-empty 大字 group becomes a key
\* of area_data and receives every 丁目 match of the address
extract_area_from_address(s) ==
    LET oaza_found == oaza_findall(s, 1)
        chome_found == chome_findall(s, 1)
        names == {strip(oaza_found[k].group) : k \in DOMAIN oaza_found} \ {<<>>}
    IN  [done |-> TRUE, oaza_matches |-> oaza_found,
         chome_matches |-> chome_found,
         area_data |-> {<<n, {chome_found[k].group : k \in DOMAIN chome_found}>> :
                           n \in names}]

\* the longest address
MaxAddress == 5

\* the characters of an address: 大, 字, 泊, 1, 丁, 目, 番, 地 and the blank
Alphabet == {"oo", "aza", "tomari", "1", "chou", "me", "ban", "chi", " "}

InitAddress ==
    /\ NoDataset
    /\ NoExtraction
    /\ session_state = SessionState
    /\ NoFile
    /\ NoName
    /\ address \in SeqsUpTo(Alphabet, MaxAddress)
    /\ extracted = NoExtracted
    /\ NoInvocations
    /\ NoPages

\* the extraction from the address column of one row
ExtractAreaFromAddress ==
    /\ ~extracted.done
    /\ extracted' = extract_area_from_address(address)
    /\ UNCHANGED <<gdf, call, ret, win, prev, geopandas, session_state, table,
                   processed, area_name, normalized, address, invocation,
                   wizard, sorting>>

NextAddress == ExtractAreaFromAddress

SpecAddress == InitAddress /\ [][NextAddress]_vars

\* the first position from g on where a digit or 丁目 begins, or the end
ClaimedEnd(g) ==
    CHOOSE e \in g..(Len(address) + 1) :
        /\ terminator_no_banchi(address, e) >= 0
        /\ \A d \in g..(e - 1) : terminator_no_banchi(address, d) < 0

\* the first position after g where a digit, 丁目 or 番地 begins, or the end
AmendedEnd(g) ==
    CHOOSE e \in (g + 1)..(Len(address) + 1) :
        /\ (e = Len(address) + 1 \/ address[e] \in Digits
            \/ at(address, e, Chome) \/ at(address, e, BANCHI))
        /\ \A d \in (g + 1)..(e - 1) :
              ~(address[d] \in Digits \/ at(address, d, Chome)
                \/ at(address, d, BANCHI))

\* the runs of digits that no digit precedes or follows and that 丁目 follows,
\* with the marker
ChomeRuns ==
    {SubSeq(address, r[1], r[2] + 2) :
        r \in {q \in (1..Len(address)) \X (1..Len(address)) :
                  /\ q[1] <= q[2]
                  /\ \A k \in q[1]..q[2] : address[k] \in Digits
                  /\ (q[1] = 1 \/ address[q[1] - 1] \notin Digits)
                  /\ at(address, q[2] + 1, Chome)}}

OazaMatches == {extracted.oaza_matches[k] : k \in DOMAIN extracted.oaza_matches}
ChomeMatches == {extracted.chome_matches[k].group : k \in DOMAIN extracted.chome_matches}

\* C19 as stated: every district found in the address is the text after an
\* occurrence of 大字 up to, and without, the next digit, the next 丁目 or the end
\* of the string, and the sub-districts are the maximal runs of digits that
\* 丁目 follows.
C19_FreeFormExtraction ==
    extracted.done =>
        /\ \A m \in OazaMatches :
              /\ at(address, m.start, OAZA)
              /\ m.group = SubSeq(address, m.start + 2, ClaimedEnd(m.start + 2) - 1)
        /\ ChomeMatches = ChomeRuns

\* C19 as amended: every district found in the address is the text after an
\* occurrence of 大字, of at least one character, up to and without the first
\* later digit, 丁目 or 番地, or up to the end of the string; the keys of the
\* result are these texts without surrounding blanks, the empty ones left
\* out; the sub-districts are the maximal runs of digits that 丁目 follows.
C19_FreeFormExtractionBanchi ==
    extracted.done =>
        /\ \A m \in OazaMatches :
              /\ at(address, m.start, OAZA)
              /\ Len(m.group) >= 1
              /\ m.group = SubSeq(address, m.start + 2, AmendedEnd(m.start + 2) - 1)
        /\ {p[1] : p \in extracted.area_data}
               = {strip(m.group) : m \in OazaMatches} \ {<<>>}
        /\ \A p \in extracted.area_data : p[2] = ChomeMatches
        /\ ChomeMatches = ChomeRuns

\* 大字泊番地: the district 泊 ends at 番地
C19_Witness ==
    /\ extracted.done
    /\ \E m \in OazaMatches :
          /\ m.group = <<"tomari">>
          /\ at(address, m.start + 2 + Len(m.group), BANCHI)
          /\ <<m.group, {}>> \in extracted.area_data

-----------------------------------------------------------------------------
(* Concurrent extraction invocations on one dataset                        *)
(*                                                                         *)
(* An invocation constructs its KozuWebExtractor and calls extract_data    *)
(* on the shared dataset.  The constructor is four statements, each of     *)
(* which is a step of its own; extract_data reads nothing but its          *)
(* arguments and the dataset, which no step writes, and is one step.       *)

MaxInvocations == 2

NoInvocation ==
    [pc |-> "init", call |-> NoCall, ret |-> NoRet, writes |-> {},
     observed |-> {}]

\* the other invocations that have written the key of st.session_state
writers(p, key) ==
    {q \in DOMAIN invocation : q # p /\ key \in invocation[q].writes}

\* a loaded dataset and a session in which the keys of the constructor may
\* or may not exist yet
InitConcurrent ==
    /\ \E rows \in [1..2 -> {Row(D01, NULL, NULL, P100, Square(0, 0)),
                            Row(D01, NULL, NULL, P101, Square(1, 1)),
                            Row(D01, NULL, NULL, NULL, Square(0, 0))}] :
          gdf = [columns |-> {COL_OAZA, COL_CHIBAN, COL_GEOMETRY},
                 crs |-> CRS, rows |-> rows]
    /\ geopandas = "set_crs_none_raises"
    /\ NoExtraction
    /\ \E keys \in SUBSET {"gdf", "web_files_cache"} :
          session_state = [SessionState EXCEPT !.keys = keys]
    /\ NoFile
    /\ NoName
    /\ NoAddress
    /\ invocation = [p \in 1..MaxInvocations |-> NoInvocation]
    /\ NoPages

\* line 28: if 'gdf' not in st.session_state
InitTestGdf(p) ==
    /\ invocation[p].pc = "init"
    /\ invocation' =
         [invocation EXCEPT
            ![p].pc = IF "gdf" \in session_state.keys
                      THEN "test_web_files_cache" ELSE "set_gdf",
            ![p].observed = @ \cup writers(p, "gdf")]
    /\ UNCHANGED <<gdf, call, ret, win, prev, geopandas, session_state, table,
                   processed, area_name, normalized, address, extracted,
                   wizard, sorting>>

\* line 29: st.session_state.gdf = None
InitSetGdf(p) ==
    /\ invocation[p].pc = "set_gdf"
    /\ session_state' = [session_state EXCEPT !.keys = @ \cup {"gdf"},
                                              !.gdf = NULL]
    /\ invocation' = [invocation EXCEPT ![p].pc = "test_web_files_cache",
                                        ![p].writes = @ \cup {"gdf"}]
    /\ UNCHANGED <<gdf, call, ret, win, prev, geopandas, table,
                   processed, area_name, normalized, address, extracted,
                   wizard, sorting>>

\* line 30: if 'web_files_cache' not in st.session_state
InitTestCache(p) ==
    /\ invocation[p].pc = "test_web_files_cache"
    /\ invocation' =
         [invocation EXCEPT
            ![p].pc = IF "web_files_cache" \in session_state.keys
                      THEN "extract_data" ELSE "set_web_files_cache",
            ![p].observed = @ \cup writers(p, "web_files_cache")]
    /\ UNCHANGED <<gdf, call, ret, win, prev, geopandas, session_state, table,
                   processed, area_name, normalized, address, extracted,
                   wizard, sorting>>

\* line 31: st.session_state.web_files_cache = {}
InitSetCache(p) ==
    /\ invocation[p].pc = "set_web_files_cache"
    /\ session_state' =
         [session_state EXCEPT !.keys = @ \cup {"web_files_cache"},
                               !.web_files_cache = {}]
    /\ invocation' = [invocation EXCEPT ![p].pc = "extract_data",
                                        ![p].writes = @ \cup {"web_files_cache"}]
    /\ UNCHANGED <<gdf, call, ret, win, prev, geopandas, table,
                   processed, area_name, normalized, address, extracted,
                   wizard, sorting>>

\* lines 149-282: extract_data on the shared dataset
InvokeExtractData(p, chiban, range_m) ==
    /\ invocation[p].pc = "extract_data"
    /\ invocation' =
         [invocation EXCEPT
            ![p].pc = "done",
            ![p].call = [made |-> TRUE, oaza |-> D01, chome |-> NULL,
                         koaza |-> NULL, chiban |-> chiban,
                         range_m |-> range_m],
            ![p].ret = extract_data(gdf, D01, NULL, NULL, chiban, range_m).ret]
    /\ UNCHANGED <<gdf, call, ret, win, prev, geopandas, session_state, table,
                   processed, area_name, normalized, address, extracted,
                   wizard, sorting>>

NextConcurrent ==
    \E p \in DOMAIN invocation :
        \/ InitTestGdf(p)
        \/ InitSetGdf(p)
        \/ InitTestCache(p)
        \/ InitSetCache(p)
        \/ \E chiban \in {P100, P101}, range_m \in {R(1), Rat(5, 1)} :
              InvokeExtractData(p, chiban, range_m)

SpecConcurrent == InitConcurrent /\ [][NextConcurrent]_vars

\* what the invocation returns when it runs alone on the dataset
alone(p) ==
    extract_data(gdf, invocation[p].call.oaza, invocation[p].call.chome,
                 invocation[p].call.koaza, invocation[p].call.chiban,
                 invocation[p].call.range_m).ret

\* C21: in every interleaving of the invocations on one dataset, each
\* finished invocation has returned what it returns when run alone, and no
\* invocation has read state that another invocation wrote.
C21_IndependentInvocations ==
    \A p \in DOMAIN invocation :
        /\ invocation[p].pc = "done" => invocation[p].ret = alone(p)
        /\ invocation[p].observed = {}

-----------------------------------------------------------------------------
(* The range of the search window *)

\* C22: a call whose range_m is zero or negative builds no search window
\* and returns no neighbor set.
C22_PositiveRange ==
    (call.made /\ ~RatPos(call.range_m)) =>
        /\ ~win.built
        /\ ret.overlay_gdf.none

-----------------------------------------------------------------------------
(* The four-step wizard: MainPage (src/pages/main_page.py) and the step    *)
(* classes Step1Selection, Step2Area and Step3Chiban (src/pages/steps)     *)
(*                                                                         *)
(* A str is a sequence of characters as before, "" is <<>>.  A dict is     *)
(* the sequence of its <<key, value>> pairs in insertion order.  A user    *)
(* event is one action: the handler of the widget, then the effects of     *)
(* the script runs that st.rerun() starts (render).                        *)

\* 沖縄県, 東京都; 那覇市, 宜野湾市, 港区
OKINAWA_KEN == <<"oki", "nawa", "ken">>
TOKYO_TO == <<"tou", "kyou", "to">>
NAHA_SHI == <<"na", "ha", "shi">>
GINOWAN_SHI == <<"gi", "no", "wan", "shi">>
MINATO_KU == <<"minato", "ku">>

\* dict.get(key, default)
get(d, key, default) ==
    IF \E k \in 1..Len(d) : d[k][1] = key
    THEN d[CHOOSE k \in 1..Len(d) : d[k][1] = key][2]
    ELSE default

\* st.session_state.prefecture_data: the cities of each prefecture
prefecture_data ==
    << <<OKINAWA_KEN, <<NAHA_SHI, GINOWAN_SHI>> >>,
       <<TOKYO_TO, <<MINATO_KU>> >> >>

\* st.session_state.prefecture_codes; 東京都 has no code: the first row of
\* the prefecture in the municipality table had none
prefecture_codes == << <<OKINAWA_KEN, <<"4", "7">> >> >>

\* st.session_state.city_codes[f"{prefecture}_{city}"]['city_code']
city_codes ==
    << <<NAHA_SHI, <<"2", "0", "1">> >>,
       <<GINOWAN_SHI, <<"2", "0", "5">> >>,
       <<MINATO_KU, <<"1", "0", "3">> >> >>

\* the area data that a successful GIS load stores for a city:
\* 那覇市 {那覇: [1丁目, 2丁目], 首里: [丁目データなし]}, 宜野湾市 {大山: [1丁目]}
gis_area_data(city) ==
    IF city = NAHA_SHI
    THEN << <<NAHA, <<CHOME1, CHOME2>> >>, <<SHURI, <<CHOME_DATA_NASHI>> >> >>
    ELSE IF city = GINOWAN_SHI THEN << <<OOYAMA, <<CHOME1>> >> >>
    ELSE <<>>

\* the order of str on the district names: 大山 < 那覇 < 首里
str_order == <<OOYAMA, NAHA, SHURI>>

\* sorted(area_data.keys())[0]
first_sorted_key(d) ==
    str_order[CHOOSE i \in 1..Len(str_order) :
                /\ \E k \in 1..Len(d) : d[k][1] = str_order[i]
                /\ \A j \in 1..(i - 1) :
                      ~\E k \in 1..Len(d) : d[k][1] = str_order[j]]

Steps == 1..4

\* target_shp_file == "": no shp file is identified
NoShp ==
    [how |-> "none",
     address |-> [prefecture |-> <<>>, city |-> <<>>, oaza |-> <<>>,
                  chome |-> <<>>, chiban |-> <<>>, search_code |-> <<>>]]

\* MainPage._init_session_state
init_session_state ==
    [selected_prefecture |-> <<>>, selected_city |-> <<>>,
     selected_oaza |-> <<>>, selected_chome |-> <<>>, input_chiban |-> <<>>,
     area_data |-> <<>>, target_shp_file |-> NoShp,
     gis_load_attempted |-> FALSE,
     step_completed |-> [k \in Steps |-> FALSE]]

\* MainPage._reset_from_step; Step1Selection._reset_subsequent_steps is
\* the case step_number = 2
reset_from_step(w, step_number) ==
    [w EXCEPT
       !.selected_prefecture = IF step_number = 1 THEN <<>> ELSE @,
       !.selected_city = IF step_number = 1 THEN <<>> ELSE @,
       !.selected_oaza = IF step_number <= 2 THEN <<>> ELSE @,
       !.selected_chome = IF step_number <= 2 THEN <<>> ELSE @,
       !.input_chiban = IF step_number <= 3 THEN <<>> ELSE @,
       !.area_data = IF step_number = 1 THEN <<>> ELSE @,
       !.target_shp_file = NoShp,
       !.gis_load_attempted = IF step_number = 1 THEN FALSE ELSE @,
       !.step_completed = [k \in Steps |-> IF k >= step_number THEN FALSE
                                           ELSE @[k]]]

\* DATA_NASHI is データなし
no_chome_data(chome_options) ==
    \/ chome_options = <<>>
    \/ chome_options = <<CHOME_DATA_NASHI>>
    \/ chome_options = <<DATA_NASHI>>

\* MainPage._get_search_code
get_search_code(w) ==
    IF w.selected_prefecture = <<>> \/ w.selected_city = <<>> THEN <<>>
    ELSE get(prefecture_codes, w.selected_prefecture, <<>>)
           \o get(city_codes, w.selected_city, <<>>)

\* なし
NASHI == <<"na", "shi">>

\* MainPage._build_complete_address_info
build_complete_address_info(w) ==
    [prefecture |-> w.selected_prefecture,
     city |-> w.selected_city,
     oaza |-> w.selected_oaza,
     chome |-> IF w.selected_chome \in {CHOME_DATA_NASHI, DATA_NASHI, <<>>}
               THEN NASHI ELSE w.selected_chome,
     chiban |-> w.input_chiban,
     search_code |-> get_search_code(w)]

\* The effects of the script runs after an event (MainPage.render): step 2
\* completes by itself when the selected district has no sub-district
\* data, step 4 when a shp file name is stored.
render(w) ==
    LET w2 == IF /\ w.step_completed[1]
                 /\ w.area_data # <<>>
                 /\ w.selected_oaza # <<>>
                 /\ no_chome_data(get(w.area_data, w.selected_oaza, <<>>))
                 /\ ~w.step_completed[2]
              THEN [w EXCEPT !.step_completed[2] = TRUE]
              ELSE w
    IN  IF /\ w2.step_completed[3]
           /\ w2.target_shp_file # NoShp
           /\ ~w2.step_completed[4]
        THEN [w2 EXCEPT !.step_completed[4] = TRUE]
        ELSE w2

\* PrefectureCitySelector.auto_load_gis_data: the GIS loader it delegates
\* to either stores the area data of the city and returns True, or finds
\* no file and returns False
LoadOutcomes == {"loaded", "not_found"}

auto_load_gis_data(w, outcome) ==
    IF outcome = "loaded"
    THEN [w EXCEPT !.area_data = gis_area_data(w.selected_city)]
    ELSE w

\* MainPage._process_gis_load_result; Step1Selection._process_gis_load_result
\* selects no district
process_gis_load_result(w, success, page) ==
    IF /\ page = "MainPage"
       /\ success
       /\ Len(w.area_data) > 0
       /\ w.selected_oaza = <<>>
    THEN [w EXCEPT !.selected_oaza = first_sorted_key(w.area_data)]
    ELSE w

\* MainPage._auto_load_step2_data, Step1Selection._auto_load_step2_data
auto_load_step2_data(w, outcome, page) ==
    IF w.selected_prefecture = <<>> \/ w.selected_city = <<>> THEN w
    ELSE IF /\ get(prefecture_codes, w.selected_prefecture, <<>>) # <<>>
            /\ get(city_codes, w.selected_city, <<>>) # <<>>
         THEN process_gis_load_result(
                  auto_load_gis_data([w EXCEPT !.gis_load_attempted = TRUE],
                                     outcome),
                  outcome = "loaded", page)
         ELSE w

\* Characters of a parcel number: ASCII digits and hyphen, the full-width
\* digits １ ２ ("fw1", "fw2"), the full-width hyphen － ("fw-"), the
\* Arabic-Indic digit ١ ("ai1"), 番 地 の, a blank and a letter.

\* what \d of re matches in a str: every Unicode decimal digit
unicode_digits == Digits \cup {"fw1", "fw2", "ai1"}

\* \d+
all_digits(s) == Len(s) > 0 /\ \A k \in 1..Len(s) : s[k] \in unicode_digits

\* ^\d+(-\d+)*$
digits_and_hyphens(s) ==
    /\ Len(s) > 0
    /\ \A k \in 1..Len(s) : s[k] \in unicode_digits \cup {"-"}
    /\ s[1] # "-" /\ s[Len(s)] # "-"
    /\ \A k \in 1..(Len(s) - 1) : ~(s[k] = "-" /\ s[k + 1] = "-")

\* ^\d+番地\d*$, which covers ^\d+番地$
banchi_form(s) ==
    \E k \in 1..Len(s) :
        /\ all_digits(SubSeq(s, 1, k))
        /\ Len(s) >= k + 2
        /\ s[k + 1] = "ban" /\ s[k + 2] = "chi"
        /\ \A j \in (k + 3)..Len(s) : s[j] \in unicode_digits

\* ^\d+の\d+$
no_form(s) ==
    \E k \in 1..Len(s) :
        /\ all_digits(SubSeq(s, 1, k))
        /\ Len(s) >= k + 2
        /\ s[k + 1] = "no"
        /\ all_digits(SubSeq(s, k + 2, Len(s)))

\* MainPage._validate_chiban
validate_chiban(chiban) ==
    /\ chiban # <<>>
    /\ \/ digits_and_hyphens(chiban)
       \/ banchi_form(chiban)
       \/ all_digits(chiban)

\* Step3Chiban._normalize_chiban
normalize_chiban(chiban) ==
    strip([k \in 1..Len(chiban) |->
             CASE chiban[k] = "fw1" -> "1"
               [] chiban[k] = "fw2" -> "2"
               [] chiban[k] = "fw-" -> "-"
               [] OTHER -> chiban[k]])

\* Step3Chiban._validate_chiban
step3_validate_chiban(chiban) ==
    LET normalized_chiban == normalize_chiban(chiban)
    IN  [valid |-> /\ chiban # <<>>
                   /\ \/ digits_and_hyphens(normalized_chiban)
                      \/ banchi_form(normalized_chiban)
                      \/ all_digits(normalized_chiban)
                      \/ no_form(normalized_chiban),
         normalized |-> normalized_chiban]

\* what the user types into the parcel number field: 12-3, １２, " 2 ",
\* 2番地, 2番地1, 1の2, １－２, ١, x1, 1-, ""
ChibanInputs ==
    { <<"1", "2", "-", "3">>, <<"fw1", "fw2">>, <<" ", "2", " ">>,
      <<"2", "ban", "chi">>, <<"2", "ban", "chi", "1">>, <<"1", "no", "2">>,
      <<"fw1", "fw-", "fw2">>, <<"ai1">>, <<"x", "1">>, <<"1", "-">>, <<>> }

\* the session when the municipality table is loaded and the page opens
InitWizard ==
    /\ NoDataset
    /\ NoExtraction
    /\ session_state = SessionState
    /\ NoFile
    /\ NoName
    /\ NoAddress
    /\ NoInvocations
    /\ wizard = init_session_state
    /\ sorting = <<>>

others ==
    <<gdf, call, ret, win, prev, geopandas, session_state, table, processed,
      area_name, normalized, address, extracted, invocation, sorting>>

\* main_page.py lines 161-170: another prefecture is selected
SelectPrefecture(prefecture_name) ==
    /\ wizard.selected_prefecture # prefecture_name
    /\ wizard' = render([reset_from_step(wizard, 1) EXCEPT
                            !.selected_prefecture = prefecture_name])
    /\ UNCHANGED others

\* main_page.py lines 184-208 (page = "MainPage") and step1_selection.py
\* lines 70-115 (page = "Step1Selection"): another city is selected
SelectCity(selected_city, outcome, page) ==
    /\ wizard.selected_prefecture # <<>>
    /\ \E k \in 1..Len(get(prefecture_data, wizard.selected_prefecture, <<>>)) :
          get(prefecture_data, wizard.selected_prefecture, <<>>)[k]
             = selected_city
    /\ wizard.selected_city # selected_city
    /\ wizard' =
         render(auto_load_step2_data(
                    [reset_from_step(wizard, 2) EXCEPT
                        !.selected_city = selected_city,
                        !.step_completed[1] = TRUE],
                    outcome, page))
    /\ UNCHANGED others

\* main_page.py lines 295-303, 412-441: the manual reload button of step 2
ManualReloadGisData(outcome) ==
    /\ wizard.step_completed[1]
    /\ wizard.area_data = <<>>
    /\ wizard.gis_load_attempted
    /\ get(prefecture_codes, wizard.selected_prefecture, <<>>) # <<>>
    /\ get(city_codes, wizard.selected_city, <<>>) # <<>>
    /\ wizard' = render(auto_load_gis_data(wizard, outcome))
    /\ UNCHANGED others

\* main_page.py lines 322-346: another district is selected
SelectOaza(selected_oaza) ==
    /\ wizard.step_completed[1]
    /\ wizard.area_data # <<>>
    /\ \E k \in 1..Len(wizard.area_data) :
          wizard.area_data[k][1] = selected_oaza
    /\ wizard.selected_oaza # selected_oaza
    /\ wizard' = render([wizard EXCEPT !.selected_oaza = selected_oaza,
                                       !.selected_chome = <<>>])
    /\ UNCHANGED others

\* main_page.py lines 348-390: another sub-district is selected
SelectChome(selected_chome) ==
    /\ wizard.step_completed[1]
    /\ wizard.area_data # <<>>
    /\ wizard.selected_oaza # <<>>
    /\ LET chome_options == get(wizard.area_data, wizard.selected_oaza, <<>>)
       IN  /\ ~no_chome_data(chome_options)
           /\ \E k \in 1..Len(chome_options) : chome_options[k] = selected_chome
    /\ wizard.selected_chome # selected_chome
    /\ wizard' = render([wizard EXCEPT !.selected_chome = selected_chome,
                                       !.step_completed[2] = TRUE])
    /\ UNCHANGED others

\* main_page.py lines 500-512: the confirm button of step 3
ConfirmChiban(input_chiban) ==
    /\ wizard.step_completed[2]
    /\ wizard' =
         IF strip(input_chiban) # <<>> /\ validate_chiban(strip(input_chiban))
         THEN render([wizard EXCEPT !.input_chiban = strip(input_chiban),
                                    !.step_completed[3] = TRUE])
         ELSE wizard
    /\ UNCHANGED others

\* step3_chiban.py lines 62-97: the confirm button of Step3Chiban
ValidateAndSetChiban(input_chiban) ==
    /\ wizard.step_completed[2]
    /\ wizard' =
         LET chiban == strip(input_chiban)
             validation_result == step3_validate_chiban(chiban)
         IN  IF chiban # <<>> /\ validation_result.valid
             THEN render([wizard EXCEPT
                            !.input_chiban = validation_result.normalized,
                            !.step_completed[3] = TRUE])
             ELSE wizard
    /\ UNCHANGED others

\* MainPage._identify_target_shp: the file that the search of the shp
\* manager finds for the address, else the first generated pattern, else
\* (on an exception) the fallback name; each is a name made from the
\* address information
ShpOutcomes == {"found", "pattern", "fallback"}

identify_target_shp(w, outcome) ==
    [w EXCEPT !.target_shp_file =
                  [how |-> outcome, address |-> build_complete_address_info(w)]]

\* main_page.py lines 574-585: the identify button of step 4
IdentifyTargetShp(outcome) ==
    /\ wizard.step_completed[3]
    /\ wizard' = render(identify_target_shp(wizard, outcome))
    /\ UNCHANGED others

\* main_page.py lines 860-868: the two reset buttons of the final result
ResetAllSteps ==
    /\ wizard.step_completed[4]
    /\ wizard' = render(reset_from_step(wizard, 1))
    /\ UNCHANGED others

\* step2_area.py lines 276-281: the reset button of Step2Area
ResetStep2 ==
    /\ wizard.area_data # <<>>
    /\ wizard.step_completed[2]
    /\ wizard' = render([wizard EXCEPT !.selected_oaza = <<>>,
                                       !.selected_chome = <<>>,
                                       !.step_completed[2] = FALSE])
    /\ UNCHANGED others

NextWizard ==
    \/ \E prefecture_name \in {OKINAWA_KEN, TOKYO_TO} :
          SelectPrefecture(prefecture_name)
    \/ \E selected_city \in {NAHA_SHI, GINOWAN_SHI, MINATO_KU},
          outcome \in LoadOutcomes, page \in {"MainPage", "Step1Selection"} :
          SelectCity(selected_city, outcome, page)
    \/ \E outcome \in LoadOutcomes : ManualReloadGisData(outcome)
    \/ \E selected_oaza \in {NAHA, SHURI, OOYAMA} : SelectOaza(selected_oaza)
    \/ \E selected_chome \in {CHOME1, CHOME2} : SelectChome(selected_chome)
    \/ \E input_chiban \in ChibanInputs : ConfirmChiban(input_chiban)
    \/ \E input_chiban \in ChibanInputs : ValidateAndSetChiban(input_chiban)
    \/ \E outcome \in ShpOutcomes : IdentifyTargetShp(outcome)
    \/ ResetAllSteps
    \/ ResetStep2

SpecWizard == InitWizard /\ [][NextWizard]_vars

\* C23: in every state of the wizard, step k+1 is completed only if step k
\* is completed, for k = 1..3.
C23_NoStepSkipping ==
    \A k \in 1..3 : wizard.step_completed[k + 1] => wizard.step_completed[k]


\* whenever step 4 is completed, target_shp_file was identified from the
\* address that is now selected
ShpOfSelectedAddress ==
    wizard.step_completed[4] =>
        wizard.target_shp_file.address = build_complete_address_info(wizard)

\* C24: a user event that changes the prefecture or the city leaves the
\* flags and values of steps 2-4 cleared, one that changes the district or
\* the sub-district leaves those of steps 3-4 cleared (a district change
\* also clears the sub-district), one that changes the confirmed parcel
\* number leaves those of step 4 cleared; and whenever step 4 is completed,
\* target_shp_file was identified from the address that is now selected.
C24_DownstreamInvalidated ==
    /\ [][/\ (\/ wizard'.selected_prefecture # wizard.selected_prefecture
              \/ wizard'.selected_city # wizard.selected_city)
             => /\ \A j \in 3..4 : ~wizard'.step_completed[j]
                /\ wizard'.selected_chome = <<>>
                /\ wizard'.input_chiban = <<>>
                /\ wizard'.target_shp_file = NoShp
          /\ wizard'.selected_oaza # wizard.selected_oaza
             => wizard'.selected_chome = <<>>
          /\ (\/ wizard'.selected_oaza # wizard.selected_oaza
              \/ wizard'.selected_chome # wizard.selected_chome)
             => /\ \A j \in 3..4 : ~wizard'.step_completed[j]
                /\ wizard'.input_chiban = <<>>
                /\ wizard'.target_shp_file = NoShp
          /\ wizard'.input_chiban # wizard.input_chiban
             => /\ ~wizard'.step_completed[4]
                /\ wizard'.target_shp_file = NoShp]_vars
    /\ []ShpOfSelectedAddress


\* C25: whenever a city is selected, area_data is empty or is the district
\* list loaded for that city, never the list loaded for the city selected
\* before.
C25_AreaDataOfSelectedCity ==
    (wizard.selected_city # <<>> /\ wizard.area_data # <<>>) =>
        wizard.area_data = gis_area_data(wizard.selected_city)

-----------------------------------------------------------------------------
(* The 丁目 lists of the area data built from a dataset *)

\* the list stored in st.session_state.area_data under a normalised 大字 name
stored_chome(name) ==
    IF \E p \in session_state.area_data.val : p[1] = name
    THEN (CHOOSE p \in session_state.area_data.val : p[1] = name)[2]
    ELSE {}

\* the rows of the table whose 大字 value and 丁目 value are both present
RowsWithChome ==
    {k \in 1..Len(series(table, processed.oaza_col.val)) :
        /\ series(table, processed.oaza_col.val)[k] # NULL
        /\ series(table, processed.chome_col.val)[k] # NULL
        /\ normalize_area_name(series(table, processed.oaza_col.val)[k]) # <<>>
        /\ normalize_area_name(series(table, processed.chome_col.val)[k]) # <<>>}

\* C26 as stated: in the area data built from a dataset with a 大字 and a 丁目
\* column, the list of a normalised 大字 name holds the normalised 丁目 of every
\* row whose 大字 value normalises to that name, also when several raw values
\* normalise to the same name.
C26_AllSubDistrictsKept ==
    (/\ Resolved
     /\ processed.source = "extracted"
     /\ ~processed.oaza_col.none
     /\ ~processed.chome_col.none) =>
        \A k \in RowsWithChome :
            normalize_area_name(series(table, processed.chome_col.val)[k])
                \in stored_chome(normalize_area_name(
                        series(table, processed.oaza_col.val)[k]))

-----------------------------------------------------------------------------
(* DataProcessor.sort_prefectures_with_okinawa_first on its own *)

HOKKAIDO == <<"hok", "kai", "dou">>        \* 北海道
OSAKA_FU == <<"oo", "saka", "fu">>         \* 大阪府

PrefectureNames == <<OKINAWA_KEN, TOKYO_TO, HOKKAIDO, OSAKA_FU>>

\* the values str(code)[:2] of the prefecture codes
CodeValues == {<<"1", "3">>, <<"9">>}

MaxPrefectures == 4

\* a < b and a <= b on str: the comparison of list.sort on the keys
str_lt(a, b) ==
    \/ Len(a) < Len(b) /\ \A k \in 1..Len(a) : a[k] = b[k]
    \/ \E i \in 1..Len(a) :
          /\ i <= Len(b)
          /\ \A k \in 1..(i - 1) : a[k] = b[k]
          /\ DigitVal(a[i]) < DigitVal(b[i])

str_le(a, b) == a = b \/ str_lt(a, b)

\* lambda x: prefecture_codes.get(x, '99')
code_key(codes, x) == get(codes, x, <<"9", "9">>)

\* list.sort(key=...): ascending in the key, elements of equal key in their
\* original order
sort_by_code(prefs, codes) ==
    LET before(i, j) == \/ str_lt(code_key(codes, prefs[i]), code_key(codes, prefs[j]))
                        \/ /\ code_key(codes, prefs[i]) = code_key(codes, prefs[j])
                           /\ i < j
        rank(i) == 1 + Cardinality({j \in DOMAIN prefs : before(j, i)})
    IN  [k \in DOMAIN prefs |-> prefs[CHOOSE i \in DOMAIN prefs : rank(i) = k]]

\* the mapping with a missing code sorting before every code
sort_prefectures_missing_code_first(data, codes) ==
    LET keys == [k \in DOMAIN data |-> data[k][1]]
        sorted_prefs == SelectSeq(keys, LAMBDA p : p = OKINAWA_KEN)
        other_prefs == SelectSeq(keys, LAMBDA p : p # OKINAWA_KEN)
        before(i, j) ==
            \/ str_lt(get(codes, other_prefs[i], <<"0", "0">>),
                      get(codes, other_prefs[j], <<"0", "0">>))
            \/ /\ get(codes, other_prefs[i], <<"0", "0">>)
                    = get(codes, other_prefs[j], <<"0", "0">>)
               /\ i < j
        rank(i) == 1 + Cardinality({j \in DOMAIN other_prefs : before(j, i)})
        all_prefs == sorted_prefs \o
            [k \in DOMAIN other_prefs |->
                other_prefs[CHOOSE i \in DOMAIN other_prefs : rank(i) = k]]
    IN  [k \in DOMAIN all_prefs |-> <<all_prefs[k], get(data, all_prefs[k], {})>>]

\* DataProcessor.sort_prefectures_with_okinawa_first and
\* PrefectureCitySelector._sort_prefectures_with_okinawa_first: the keys of the
\* dict are distinct, so that at most one of them is 沖縄県
sort_prefectures_with_okinawa_first(data, codes) ==
    LET keys == [k \in DOMAIN data |-> data[k][1]]
        sorted_prefs == SelectSeq(keys, LAMBDA p : p = OKINAWA_KEN)
        other_prefs == SelectSeq(keys, LAMBDA p : p # OKINAWA_KEN)
        all_prefs == sorted_prefs \o sort_by_code(other_prefs, codes)
    IN  [k \in DOMAIN all_prefs |-> <<all_prefs[k], get(data, all_prefs[k], {})>>]

\* the dicts of prefectures: up to MaxPrefectures distinct names in any
\* order, each with a set of municipalities
PrefectureDicts ==
    UNION {{d \in [1..n -> (1..Len(PrefectureNames)) \X {{}, {NAHA_SHI}}] :
                \A i, j \in 1..n : i # j => d[i][1] # d[j][1]}
           : n \in 0..MaxPrefectures}

\* the dicts of codes: a code for any of the names
CodeDicts ==
    {SelectSeq([k \in 1..Len(PrefectureNames) |-> <<PrefectureNames[k], f[k]>>],
               LAMBDA e : e[2] # NULL)
     : f \in [1..Len(PrefectureNames) -> CodeValues \cup {NULL}]}

InitSort ==
    /\ NoDataset
    /\ NoExtraction
    /\ session_state = SessionState
    /\ NoFile
    /\ NoName
    /\ NoAddress
    /\ NoInvocations
    /\ wizard = <<>>
    /\ \E d \in PrefectureDicts, codes \in CodeDicts :
          sorting = [prefecture_data |->
                         [k \in DOMAIN d |-> <<PrefectureNames[d[k][1]], d[k][2]>>],
                     prefecture_codes |-> codes,
                     sorted |-> None(<<>>)]

\* the call of the function on the two dicts
SortPrefectures ==
    /\ sorting.sorted.none
    /\ sorting' = [sorting EXCEPT !.sorted =
          Some(sort_prefectures_with_okinawa_first(sorting.prefecture_data,
                                                   sorting.prefecture_codes))]
    /\ UNCHANGED <<gdf, call, ret, win, prev, geopandas, session_state, table,
                   processed, area_name, normalized, address, extracted,
                   invocation, wizard>>

NextSort == SortPrefectures

SpecSort == InitSort /\ [][NextSort]_vars

\* position of a prefecture in the input dict
input_position(p) ==
    CHOOSE k \in 1..Len(sorting.prefecture_data) : sorting.prefecture_data[k][1] = p

\* C27: the result has exactly the entries of the input; 沖縄県 is first when
\* it is a key; the other prefectures follow in ascending order of their code
\* (str order, a missing code counting as '99'), equal codes in input order.
C27_OkinawaFirstThenByCode ==
    ~sorting.sorted.none =>
        LET out == sorting.sorted.val
            inp == sorting.prefecture_data
            code(k) == code_key(sorting.prefecture_codes, out[k][1])
        IN  /\ Len(out) = Len(inp)
            /\ {out[k] : k \in 1..Len(out)} = {inp[k] : k \in 1..Len(inp)}
            /\ (\E k \in 1..Len(inp) : inp[k][1] = OKINAWA_KEN) =>
                   out[1][1] = OKINAWA_KEN
            /\ \A i, j \in 1..Len(out) :
                  (i < j /\ out[i][1] # OKINAWA_KEN /\ out[j][1] # OKINAWA_KEN) =>
                      /\ str_le(code(i), code(j))
                      /\ code(i) = code(j) =>
                            input_position(out[i][1]) < input_position(out[j][1])

\* a sorted dict of four prefectures: 沖縄県 was not the first key, a
\* prefecture without a code came before one with a code, and two
\* prefectures have no code (the same key '99')
C27_Witness ==
    /\ ~sorting.sorted.none
    /\ Len(sorting.prefecture_data) = 4
    /\ sorting.prefecture_data[1][1] # OKINAWA_KEN
    /\ sorting.sorted.val[1][1] = OKINAWA_KEN
    /\ \E i, j, k \in 1..4 :
          /\ i < j /\ i # k /\ j # k
          /\ sorting.prefecture_data[i][1] # OKINAWA_KEN
          /\ sorting.prefecture_data[j][1] # OKINAWA_KEN
          /\ sorting.prefecture_data[k][1] # OKINAWA_KEN
          /\ get(sorting.prefecture_codes, sorting.prefecture_data[i][1], NULL) = NULL
          /\ get(sorting.prefecture_codes, sorting.prefecture_data[j][1], NULL) # NULL
          /\ get(sorting.prefecture_codes, sorting.prefecture_data[k][1], NULL) = NULL

-----------------------------------------------------------------------------
(* Normalising a normalised name *)

\* C28: _normalize_area_name is idempotent: the normalised name of a
\* normalised name is that name itself.
C28_NormalizeIdempotent ==
    ~normalized.none => normalize_area_name(normalized.val) = normalized.val

\* a name that the normalisation changed: a padded code above 20 became the
\* name of its district
C28_Witness ==
    /\ ~normalized.none
    /\ area_name = <<" ", "2", "1", " ">>
    /\ normalized.val = OOYAMA

-----------------------------------------------------------------------------
(* The words for "no sub-district" in a query *)

\* None, "", なし, 選択なし, 丁目データなし, データなし
NoChomeValues ==
    {NULL, <<>>, NASHI, SENTAKU_NASHI, CHOME_DATA_NASHI, DATA_NASHI}

\* rows of AddressRows that pass the 小字名 filter when it applies
RowsWithoutChomeFilter ==
    {i \in AddressRows :
        KoazaApplies =>
            gdf.rows[i].koaza # NULL /\ gdf.rows[i].koaza = call.koaza}

\* C29 as stated: on a dataset with a 丁目名 column, a query whose sub-district
\* is one of the "no sub-district" values is matched as a query without a
\* sub-district: the 丁目名 of the rows has no part in the targets.
C29_NoChomeValuesNotSupplied ==
    (MatchMade /\ COL_CHOME \in gdf.columns /\ call.chome \in NoChomeValues) =>
        /\ NotFound <=> RowsWithoutChomeFilter = {}
        /\ Succeeded => Targets = RowsWithoutChomeFilter

-----------------------------------------------------------------------------
(* The parcel number of a completed step 3 *)

\* the characters of a normalised parcel number: half-width digits and
\* hyphen, and the words 番地 and の of the accepted forms
HalfWidth == Digits \cup {"-", "ban", "chi", "no"}

\* C30 as stated: whenever step 3 is completed, input_chiban is not empty,
\* matches an accepted pattern and is normalised: half-width digits and
\* hyphens, no surrounding whitespace.
C30_ChibanValidNormalized ==
    wizard.step_completed[3] =>
        /\ wizard.input_chiban # <<>>
        /\ \/ validate_chiban(wizard.input_chiban)
           \/ step3_validate_chiban(wizard.input_chiban).valid
        /\ strip(wizard.input_chiban) = wizard.input_chiban
        /\ \A k \in 1..Len(wizard.input_chiban) :
              wizard.input_chiban[k] \in HalfWidth

=============================================================================
